---- MODULE Spec2Model ----
(***************************************************************************)
(* Kayton register VM: the instruction dispatcher (src/src/vm/mod.rs) and  *)
(* the bytecode assembler (src/src/vm/bytecode_builder.rs).                *)
(*                                                                         *)
(* SpecVM      runs eval_program over every program of a bounded menu.     *)
(* SpecBuilder drives a BytecodeBuilder through bounded sequences of       *)
(*             emitter calls, label placements and build() calls.          *)
(*                                                                         *)
(* A 64-bit register word is kept as its eight little-endian bytes, so     *)
(* that two's-complement wrap-around is exact.  Byte positions are 0-based *)
(* as in the source; At(bc, i) reads the byte at position i.               *)
(***************************************************************************)
EXTENDS Integers, Sequences, FiniteSets, TLC

VARIABLES
    \* ---- VirtualMachine / eval_program ----
    prog,             \* the bytecode slice handed to eval_program
    registers,        \* VirtualMachine.registers, as the map of its non-zero words
    pc,               \* eval_program's local program counter
    last_pc,          \* start byte of the instruction executed last, -1 before
    status,           \* "idle" | "running" | "ok" | "err" | "panic"
    error,            \* the VmError returned: [kind, val]
    overflow_checks,  \* build profile: TRUE = integer overflow panics
    \* ---- BytecodeBuilder ----
    bytecode,         \* BytecodeBuilder.bytecode
    labels,           \* BytecodeBuilder.labels : label id -> position
    next_label_id,    \* BytecodeBuilder.next_label_id
    pending_jumps,    \* BytecodeBuilder.pending_jumps
    \* ---- history of the builder calls (observation only) ----
    label_jumps,      \* every label-based jump emitted: [start, label, kind]
    target_jumps,     \* every target-based jump emitted: [start, target, kind]
    replaced,         \* labels place_label has put at two different positions
    returned,         \* the vector the call just made returned, if it was build()
    panicked,         \* the call just made panicked
    \* ---- eval_program_with_timeout ----
    timeout,          \* the Option<Duration> argument: NoTimeout or clock ticks
    instruction_count,\* eval_program_with_timeout's local counter
    elapsed,          \* start_time.elapsed(), in clock ticks
    \* ---- Registers (src/src/vm/registers.rs) ----
    fixed,            \* Registers.fixed : [u64; FIXED_COUNT]
    spill,            \* Registers.spill : Vec<u64>
    written,          \* observation: index -> the word set() wrote there last
    last_op,          \* observation: the Registers call just made
    \* ---- ConstPool (src/src/vm/const_pool.rs) ----
    values,           \* ConstPool.values
    value_metadata,   \* ConstPool.value_metadata
    value_name_to_index, \* ConstPool.value_name_to_index
    slices,           \* ConstPool.slices
    slice_metadata,   \* ConstPool.slice_metadata
    slice_name_to_index, \* ConstPool.slice_name_to_index
    last_add,         \* observation: the add call just made and what it returned
    \* ---- host calls (src/src/vm/call.rs) ----
    host_functions,   \* VirtualMachine.host_functions : HostFunctionRegistry
    call_stack,       \* VirtualMachine.call_stack : Vec<CallInfo>
    issued,           \* observation: the indices register() has returned
    host_log,         \* observation: every callback invocation, in order
    \* ---- format_bytecode (src/src/vm/print_bytecode.rs) ----
    listing,          \* the Result format_bytecode returned
    shape,            \* observation: how the formatted buffer was put together
    \* ---- CodeGenerator (src/src/codegen/mod.rs) ----
    gen,              \* CodeGenerator: vars, types, next_reg, print_const
    source,           \* observation: the statements compiled so far
    printed,          \* observation: what each print statement was given
    env,              \* observation: the value each variable was assigned last
    \* ---- a second builder, driven by manual patching ----
    old_builder       \* its bytecode, the operand positions returned, build()'s result

vmVars == <<prog, registers, pc, last_pc, status, error>>
builderVars == <<bytecode, labels, next_label_id, pending_jumps,
                 label_jumps, target_jumps, replaced, returned, panicked>>
timerVars == <<timeout, instruction_count, elapsed>>
regFileVars == <<fixed, spill, written, last_op>>
vars == <<prog, registers, pc, last_pc, status, error, overflow_checks,
          bytecode, labels, next_label_id, pending_jumps,
          label_jumps, target_jumps, replaced, returned, panicked,
          timeout, instruction_count, elapsed,
          fixed, spill, written, last_op,
          values, value_metadata, value_name_to_index,
          slices, slice_metadata, slice_name_to_index, last_add,
          host_functions, call_stack, issued, host_log,
          listing, shape, gen, source, printed, env, old_builder>>
coreVars == <<vmVars, overflow_checks, builderVars, timerVars, regFileVars>>
poolVars == <<values, value_metadata, value_name_to_index,
              slices, slice_metadata, slice_name_to_index, last_add>>
callVars == <<host_functions, call_stack, issued, host_log>>
fmtVars == <<listing, shape>>
cgVars == <<gen, source, printed, env>>
cmpVars == <<old_builder>>
extVars == <<poolVars, callVars, fmtVars, cgVars, cmpVars>>

-----------------------------------------------------------------------------
(* Bounds of the model *)

MaxInstrs == 2      \* instructions per program run by SpecVM
MaxOff == 5         \* largest jump operand in the SpecVM program menu
MaxBytes == 8       \* longest bytecode the builder grows in SpecBuilder
MaxLabels == 2      \* label ids 0 .. MaxLabels-1
MaxTimeout == 1     \* longest finite timeout of SpecTimeout, in clock ticks
MaxTick == 2        \* most clock ticks between two timeout samples
MaxWord == 1        \* register words 0 .. MaxWord written in SpecRegisters

-----------------------------------------------------------------------------
(* Opcodes *)

LOAD_I64 == 1
LOAD_F64 == 2
ADD_I64 == 3
SUB_I64 == 4
MUL_I64 == 5
GT_I64 == 6
ADD_F64 == 7
SUB_F64 == 8
MUL_F64 == 9
GT_F64 == 10
JUMP_FORWARD_IF_FALSE == 11
JMP == 12
I64_TO_F64 == 13
F64_TO_I64 == 14
JUMP_BACKWARD_IF_FALSE == 15
JUMP_BACKWARD_IF_TRUE == 16
JUMP_FORWARD_IF_TRUE == 17

U16 == 65536

-----------------------------------------------------------------------------
(* 64-bit words as eight little-endian bytes *)

Zero64 == <<0, 0, 0, 0, 0, 0, 0, 0>>
One64 == <<1, 0, 0, 0, 0, 0, 0, 0>>
\* 0x8000_0000_0000_0000: i64::MIN, and the bits of -0.0
HighBit64 == <<0, 0, 0, 0, 0, 0, 0, 128>>

RECURSIVE AddCarry(_, _, _, _)
AddCarry(a, b, i, c) ==
    IF i > 8 THEN <<>>
    ELSE LET s == a[i] + b[i] + c
         IN  <<s % 256>> \o AddCarry(a, b, i + 1, s \div 256)

Complement(b) == [i \in 1..8 |-> 255 - b[i]]

wrapping_add_NoCarry(a, b) == [i \in 1..8 |-> (a[i] + b[i]) % 256]

wrapping_add(a, b) == AddCarry(a, b, 1, 0)
wrapping_sub(a, b) == AddCarry(a, Complement(b), 1, 1)

RECURSIVE Column(_, _, _, _)
Column(a, b, p, i) ==
    IF i > p THEN 0 ELSE a[i] * b[p + 1 - i] + Column(a, b, p, i + 1)

RECURSIVE MulCarry(_, _, _, _)
MulCarry(a, b, p, c) ==
    IF p > 8 THEN <<>>
    ELSE LET s == Column(a, b, p, 1) + c
         IN  <<s % 256>> \o MulCarry(a, b, p + 1, s \div 256)

wrapping_mul(a, b) == MulCarry(a, b, 1, 0)

IsNegative(w) == w[8] >= 128

RECURSIVE GtUnsigned(_, _, _)
GtUnsigned(a, b, i) ==
    IF i < 1 THEN FALSE
    ELSE IF a[i] # b[i] THEN a[i] > b[i]
    ELSE GtUnsigned(a, b, i - 1)

GtSigned_Unsigned(a, b) == GtUnsigned(a, b, 8)

\* val1 > val2 on i64
GtSigned(a, b) ==
    IF IsNegative(a) # IsNegative(b) THEN IsNegative(b)
    ELSE GtUnsigned(a, b, 8)

BoolWord(t) == IF t THEN One64 ELSE Zero64

-----------------------------------------------------------------------------
(* Reading the byte slice *)

At(bc, i) == bc[i + 1]

read_u16_ok(bc, pos) == ~(pos + 1 >= Len(bc))
read_u16(bc, pos) == At(bc, pos) + 256 * At(bc, pos + 1)

read_i64_ok_Strict(bc, pos) == ~(pos + 8 >= Len(bc))

\* if pos + 7 >= bytecode.len() { return Err(UnexpectedEndOfProgram) }
read_i64_ok(bc, pos) == ~(pos + 7 >= Len(bc))
read_i64(bc, pos) == [i \in 1..8 |-> At(bc, pos + i - 1)]

to_le_bytes(v) == <<v % 256, (v \div 256) % 256>>

-----------------------------------------------------------------------------
(* execute_instruction: one decoded instruction starting at byte s.        *)
(* The result carries the pc left in eval_program's local, the register    *)
(* file, and the outcome: "Ok", a VmError kind with its payload, "Panic"   *)
(* (integer-overflow or index panic), or "Unmodelled" for floating-point   *)
(* arithmetic on operands other than +0.0.                                 *)

\* registers[reg as usize]: the array starts as [0u64; 256]
RegGet(regs, reg) == IF reg \in DOMAIN regs THEN regs[reg] ELSE Zero64

\* registers[reg as usize] = value
RegSet(regs, reg, value) ==
    LET dom == IF value = Zero64 THEN DOMAIN regs \ {reg} ELSE DOMAIN regs \cup {reg}
    IN  [r \in dom |-> IF r = reg THEN value ELSE regs[r]]

Res(p, regs, kind, v) == [pc |-> p, registers |-> regs, res |-> kind, val |-> v]

ExecLoad_WriteFirst(bc, p, regs) ==
    IF p >= Len(bc) THEN Res(p, regs, "UnexpectedEndOfProgram", 0)
    ELSE LET reg == At(bc, p)
         IN  IF ~read_i64_ok(bc, p + 1)
             THEN Res(p + 1, RegSet(regs, reg, Zero64), "UnexpectedEndOfProgram", 0)
             ELSE Res(p + 9, RegSet(regs, reg, read_i64(bc, p + 1)), "Ok", 0)

\* LOAD_I64 / LOAD_F64: [opcode, reg, value[8]]; p is the pc after the opcode
ExecLoad(bc, p, regs) ==
    IF p >= Len(bc) THEN Res(p, regs, "UnexpectedEndOfProgram", 0)
    ELSE LET reg == At(bc, p)
         IN  IF ~read_i64_ok(bc, p + 1)
             THEN Res(p + 1, regs, "UnexpectedEndOfProgram", 0)
             ELSE Res(p + 9, RegSet(regs, reg, read_i64(bc, p + 1)), "Ok", 0)

IntResult(opcode, val1, val2) ==
    CASE opcode = ADD_I64 -> wrapping_add(val1, val2)
      [] opcode = SUB_I64 -> wrapping_sub(val1, val2)
      [] opcode = MUL_I64 -> wrapping_mul(val1, val2)
      [] opcode = GT_I64 -> BoolWord(GtSigned(val1, val2))

\* ADD_I64 / SUB_I64 / MUL_I64 / GT_I64: [opcode, r1, r2, dst]
ExecInt3(bc, p, regs, opcode) ==
    IF p + 2 >= Len(bc) THEN Res(p, regs, "UnexpectedEndOfProgram", 0)
    ELSE LET r1 == At(bc, p)
             r2 == At(bc, p + 1)
             dst == At(bc, p + 2)
         IN  Res(p + 3,
                 RegSet(regs, dst, IntResult(opcode, RegGet(regs, r1), RegGet(regs, r2))),
                 "Ok", 0)

\* ADD_F64 / SUB_F64 / MUL_F64 / GT_F64: [opcode, r1, r2, dst]
\* 0.0 + 0.0, 0.0 - 0.0, 0.0 * 0.0 are +0.0 and 0.0 > 0.0 is false.
ExecFloat3(bc, p, regs, opcode) ==
    IF p + 2 >= Len(bc) THEN Res(p, regs, "UnexpectedEndOfProgram", 0)
    ELSE LET r1 == At(bc, p)
             r2 == At(bc, p + 1)
             dst == At(bc, p + 2)
         IN  IF RegGet(regs, r1) = Zero64 /\ RegGet(regs, r2) = Zero64
             THEN Res(p + 3, RegSet(regs, dst, Zero64), "Ok", 0)
             ELSE Res(p + 3, regs, "Unmodelled", 0)

\* I64_TO_F64 / F64_TO_I64: [opcode, src, dst]; 0 <-> +0.0
ExecConvert(bc, p, regs) ==
    IF p + 1 >= Len(bc) THEN Res(p, regs, "UnexpectedEndOfProgram", 0)
    ELSE LET src == At(bc, p)
             dst == At(bc, p + 1)
         IN  IF RegGet(regs, src) = Zero64
             THEN Res(p + 2, RegSet(regs, dst, Zero64), "Ok", 0)
             ELSE Res(p + 2, regs, "Unmodelled", 0)

Taken_LowByte(regs, cond_reg, ifTrue) ==
    IF ifTrue THEN RegGet(regs, cond_reg)[1] # 0 ELSE RegGet(regs, cond_reg)[1] = 0

\* the jump is taken: *_IF_TRUE on a non-zero word, *_IF_FALSE on zero
Taken(regs, cond_reg, ifTrue) ==
    IF ifTrue THEN RegGet(regs, cond_reg) # Zero64 ELSE RegGet(regs, cond_reg) = Zero64

ForwardTarget_PostOperand(operandPc, offset) == operandPc + 2 + offset
ForwardTarget_FromOpcode(operandPc, offset) == (operandPc - 2) + offset

\* let target = *pc + read_u16(bytecode, *pc) as usize, *pc at the operand
ForwardTarget(operandPc, offset) == operandPc + offset

\* JUMP_FORWARD_IF_FALSE / JUMP_FORWARD_IF_TRUE: [opcode, cond_reg, offset[2]]
ExecJumpForward(bc, p, regs, ifTrue) ==
    IF p + 2 >= Len(bc) THEN Res(p, regs, "UnexpectedEndOfProgram", 0)
    ELSE LET cond_reg == At(bc, p)
             p1 == p + 1
         IN  IF ~read_u16_ok(bc, p1)
             THEN Res(p1, regs, "UnexpectedEndOfProgram", 0)
             ELSE LET target == ForwardTarget(p1, read_u16(bc, p1))
                      p2 == p1 + 2
                  IN  IF target > Len(bc)
                      THEN Res(p2, regs, "InvalidJumpTarget", target % U16)
                      ELSE IF Taken(regs, cond_reg, ifTrue)
                           THEN Res(target, regs, "Ok", 0)
                           ELSE Res(p2, regs, "Ok", 0)

BackwardTarget_FromOperand(postPc, offset) == (postPc - 2) - offset

\* *pc -= offset, *pc after the operand
BackwardTarget(postPc, offset) == postPc - offset

\* JUMP_BACKWARD_IF_FALSE / JUMP_BACKWARD_IF_TRUE: [opcode, cond_reg, offset[2]]
\* The IF_FALSE arm builds its error payload with a usize subtraction that
\* underflows: a panic with overflow checks, a wrapped value without.
ExecJumpBackward(bc, p, regs, ifTrue) ==
    IF p + 2 >= Len(bc) THEN Res(p, regs, "UnexpectedEndOfProgram", 0)
    ELSE LET cond_reg == At(bc, p)
             p1 == p + 1
         IN  IF ~read_u16_ok(bc, p1)
             THEN Res(p1, regs, "UnexpectedEndOfProgram", 0)
             ELSE LET offset == read_u16(bc, p1)
                      p2 == p1 + 2
                  IN  IF offset > p2
                      THEN IF ~ifTrue /\ overflow_checks
                           THEN Res(p2, regs, "Panic", 0)
                           ELSE Res(p2, regs, "InvalidJumpTarget", (p2 - offset) % U16)
                      ELSE IF Taken(regs, cond_reg, ifTrue)
                           THEN Res(BackwardTarget(p2, offset), regs, "Ok", 0)
                           ELSE Res(p2, regs, "Ok", 0)

JmpTargetInvalid_Strict(bc, target) == target >= Len(bc)
JmpTargetInvalid_Lax(bc, target) == target > Len(bc) + 1

\* if target > bytecode.len() { return Err(InvalidJumpTarget) }
JmpTargetInvalid(bc, target) == target > Len(bc)

\* JMP: [opcode, target[2]]
ExecJmp(bc, p, regs) ==
    IF p + 1 >= Len(bc) THEN Res(p, regs, "UnexpectedEndOfProgram", 0)
    ELSE IF ~read_u16_ok(bc, p)
         THEN Res(p, regs, "UnexpectedEndOfProgram", 0)
         ELSE LET target == read_u16(bc, p)
                  p2 == p + 2
              IN  IF JmpTargetInvalid(bc, target)
                  THEN Res(p2, regs, "InvalidJumpTarget", target % U16)
                  ELSE Res(target, regs, "Ok", 0)

DefaultArm_Skip(p, regs, opcode) == Res(p, regs, "Ok", 0)

\* _ => return Err(VmError::InvalidOpcode(opcode))
DefaultArm(p, regs, opcode) == Res(p, regs, "InvalidOpcode", opcode)

ExecuteInstruction(bc, s, regs) ==
    IF s >= Len(bc) THEN Res(s, regs, "UnexpectedEndOfProgram", 0)
    ELSE LET opcode == At(bc, s)
             p == s + 1
         IN  CASE opcode \in {LOAD_I64, LOAD_F64} -> ExecLoad(bc, p, regs)
               [] opcode \in {ADD_I64, SUB_I64, MUL_I64, GT_I64} ->
                      ExecInt3(bc, p, regs, opcode)
               [] opcode \in {ADD_F64, SUB_F64, MUL_F64, GT_F64} ->
                      ExecFloat3(bc, p, regs, opcode)
               [] opcode = JUMP_FORWARD_IF_FALSE -> ExecJumpForward(bc, p, regs, FALSE)
               [] opcode = JUMP_FORWARD_IF_TRUE -> ExecJumpForward(bc, p, regs, TRUE)
               [] opcode = JUMP_BACKWARD_IF_FALSE -> ExecJumpBackward(bc, p, regs, FALSE)
               [] opcode = JUMP_BACKWARD_IF_TRUE -> ExecJumpBackward(bc, p, regs, TRUE)
               [] opcode = JMP -> ExecJmp(bc, p, regs)
               [] opcode \in {I64_TO_F64, F64_TO_I64} -> ExecConvert(bc, p, regs)
               [] OTHER -> DefaultArm(p, regs, opcode)

-----------------------------------------------------------------------------
(* The programs SpecVM runs: up to MaxInstrs instructions of a menu.       *)

CondJumpOps == {JUMP_FORWARD_IF_FALSE, JUMP_FORWARD_IF_TRUE,
                JUMP_BACKWARD_IF_FALSE, JUMP_BACKWARD_IF_TRUE}
CondReg == 1

Menu ==
    {<<op, CondReg>> \o to_le_bytes(k) : op \in CondJumpOps, k \in 0..MaxOff}
    \cup {<<JMP>> \o to_le_bytes(t) : t \in 0..MaxOff}
    \cup {<<GT_I64, 0, 1, 1>>, <<255>>}

RECURSIVE Flatten(_)
Flatten(ss) == IF ss = <<>> THEN <<>> ELSE Head(ss) \o Flatten(Tail(ss))

Programs ==
    {Flatten(ss) : ss \in UNION {[1..n -> Menu] : n \in 0..MaxInstrs}}

NoError == [kind |-> "None", val |-> 0]
NoBuild == <<-1>>

-----------------------------------------------------------------------------
(* Builder state held still by SpecVM, VM state held still by SpecBuilder *)

BuilderNew ==
    /\ bytecode = <<>>
    /\ labels = [l \in {} |-> 0]
    /\ next_label_id = 0
    /\ pending_jumps = <<>>
    /\ label_jumps = {}
    /\ target_jumps = {}
    /\ replaced = {}
    /\ returned = NoBuild
    /\ panicked = FALSE

VmNew ==
    /\ registers = [r \in {} |-> Zero64]
    /\ pc = 0
    /\ last_pc = -1
    /\ status = "idle"
    /\ error = NoError

\* timeout: None
NoTimeout == -1

\* eval_program_with_timeout's locals before its loop
TimerNew ==
    /\ timeout = NoTimeout
    /\ instruction_count = 0
    /\ elapsed = 0

FIXED_COUNT == 256
SPILL_INIT == 256

NoCall == [op |-> "new", index |-> 0, value |-> 0]

\* Registers::new
RegFileNew ==
    /\ fixed = [i \in 0..(FIXED_COUNT - 1) |-> 0]
    /\ spill = <<>>
    /\ written = [i \in {} |-> 0]
    /\ last_op = NoCall

NoAdd == [table |-> "none", name |-> "", index |-> 0]

\* ConstPool::new
ConstPoolNew ==
    /\ values = <<>>
    /\ value_metadata = <<>>
    /\ value_name_to_index = [n \in {} |-> 0]
    /\ slices = <<>>
    /\ slice_metadata = <<>>
    /\ slice_name_to_index = [n \in {} |-> 0]
    /\ last_add = NoAdd

\* CallInfo::Global { base: 0, top: 0 }, the frame a new VM starts with
Global == [kind |-> "Global", base |-> 0, top |-> 0, index |-> 0]

\* HostFunctionRegistry::new, and the call stack of a new VM
CallNew ==
    /\ host_functions = [funcs |-> <<>>, metadata |-> <<>>]
    /\ call_stack = <<Global>>
    /\ issued = {}
    /\ host_log = <<>>

NoListing == [ok |-> FALSE, kind |-> "none"]
NoShape == [start |-> 0, opcode |-> 0, kept |-> 0, size |-> 0]

\* nothing formatted yet
FormatNew ==
    /\ listing = NoListing
    /\ shape = NoShape

\* CodeGenerator::new(vm, print_const)
NewGenerator(print_const) ==
    [vars |-> [n \in {} |-> 0], types |-> [n \in {} |-> "Int"],
     next_reg |-> 1, print_const |-> print_const, panic |-> FALSE]

CodegenNew ==
    /\ gen = NewGenerator(0)
    /\ source = <<>>
    /\ printed = <<>>
    /\ env = [n \in {} |-> 0]

\* BytecodeBuilder::new for the second builder
OldBuilderNew == [bytecode |-> <<>>, jumps |-> {}, returned |-> NoBuild]

CompareNew == old_builder = OldBuilderNew

ExtNew ==
    /\ ConstPoolNew
    /\ CallNew
    /\ FormatNew
    /\ CodegenNew
    /\ CompareNew

-----------------------------------------------------------------------------
(* SpecVM *)

InitVM ==
    /\ prog \in Programs
    /\ overflow_checks \in BOOLEAN
    /\ VmNew
    /\ BuilderNew
    /\ TimerNew
    /\ RegFileNew
    /\ ExtNew

\* set_register_raw / set_register_i64 before a run
SetRegisterRaw(reg, value) ==
    /\ status = "idle"
    /\ RegGet(registers, reg) # value
    /\ registers' = RegSet(registers, reg, value)
    /\ UNCHANGED <<prog, pc, last_pc, status, error, overflow_checks>>
    /\ UNCHANGED <<builderVars, timerVars, regFileVars, extVars>>

\* eval_program entry: pc = 0, then the loop test
EvalProgram ==
    /\ status = "idle"
    /\ pc' = 0
    /\ status' = IF 0 < Len(prog) THEN "running" ELSE "ok"
    /\ UNCHANGED <<prog, registers, last_pc, error, overflow_checks>>
    /\ UNCHANGED <<builderVars, timerVars, regFileVars, extVars>>

\* one iteration of the while loop, with the loop test that follows it
Step ==
    /\ status = "running"
    /\ pc < Len(prog)
    /\ LET r == ExecuteInstruction(prog, pc, registers)
       IN  /\ pc' = r.pc
           /\ last_pc' = pc
           /\ registers' = r.registers
           /\ IF r.res = "Ok"
              THEN /\ status' = IF r.pc < Len(prog) THEN "running" ELSE "ok"
                   /\ error' = NoError
              ELSE /\ status' = IF r.res \in {"Panic", "Unmodelled"}
                                THEN r.res ELSE "err"
                   /\ error' = [kind |-> r.res, val |-> r.val]
    /\ UNCHANGED <<prog, overflow_checks>>
    /\ UNCHANGED <<builderVars, timerVars, regFileVars, extVars>>

NextVM ==
    \/ \E value \in {Zero64, One64, HighBit64} : SetRegisterRaw(CondReg, value)
    \/ EvalProgram
    \/ Step

SpecVM == InitVM /\ [][NextVM]_vars

\* every run stays inside the modelled instruction set
TypeVM ==
    /\ pc \in 0..Len(prog)
    /\ last_pc \in -1..(Len(prog) - 1)
    /\ status \in {"idle", "running", "ok", "err", "Panic"}

-----------------------------------------------------------------------------
(* Claims about the dispatcher's jumps (SpecVM) *)

ForwardOps == {JUMP_FORWARD_IF_FALSE, JUMP_FORWARD_IF_TRUE}
BackwardOps == {JUMP_BACKWARD_IF_FALSE, JUMP_BACKWARD_IF_TRUE}
IfTrueOps == {JUMP_FORWARD_IF_TRUE, JUMP_BACKWARD_IF_TRUE}

\* the instruction executed last is a complete 4-byte jump of one of ops
JumpDone(ops) ==
    /\ last_pc >= 0
    /\ At(prog, last_pc) \in ops
    /\ last_pc + 3 < Len(prog)

\* encoded offset and condition of the conditional jump executed last
\* (a jump writes no register, so the condition is read off the state)
LastOffset == read_u16(prog, last_pc + 2)
LastSatisfied ==
    Taken(registers, At(prog, last_pc + 1), At(prog, last_pc) \in IfTrueOps)
Continues == status \in {"running", "ok"}

JmpDone ==
    /\ last_pc >= 0
    /\ At(prog, last_pc) = JMP
    /\ last_pc + 2 < Len(prog)
LastJmpTarget == read_u16(prog, last_pc + 1)

\* C10: a JMP or a taken conditional jump whose target is len(bytecode) ends
\* the run with Ok; a JMP whose target is greater than len(bytecode) makes
\* eval_program return InvalidJumpTarget(target) and pc is not that target.
C10_JumpToEnd ==
    /\ (JmpDone /\ LastJmpTarget = Len(prog)) =>
           (status = "ok" /\ pc = Len(prog))
    /\ (JmpDone /\ LastJmpTarget > Len(prog)) =>
           /\ status = "err"
           /\ error = [kind |-> "InvalidJumpTarget", val |-> LastJmpTarget]
           /\ pc # LastJmpTarget
    /\ (JumpDone(ForwardOps) /\ LastSatisfied
            /\ last_pc + 2 + LastOffset = Len(prog)) =>
           (status = "ok" /\ pc = Len(prog))
    /\ (JumpDone(BackwardOps) /\ LastSatisfied
            /\ (last_pc + 4) - LastOffset = Len(prog)) =>
           (status = "ok" /\ pc = Len(prog))

C10_Witness ==
    /\ JmpDone
    /\ LastJmpTarget = Len(prog)
    /\ status = "ok"

\* C11: a backward conditional jump (IF_FALSE or IF_TRUE) whose encoded
\* offset is larger than the post-operand pc s + 4 makes eval_program return
\* Err(InvalidJumpTarget(_)) as a value, with pc left at s + 4: no crash, no
\* jump.
C11_BackwardBoundsError ==
    (JumpDone(BackwardOps) /\ LastOffset > last_pc + 4) =>
        /\ status = "err"
        /\ error.kind = "InvalidJumpTarget"
        /\ pc = last_pc + 4

DefinedOpcodes == LOAD_I64..JUMP_FORWARD_IF_TRUE

\* C13: when the byte at pc at an instruction boundary is not a defined
\* opcode, the run ends there with InvalidOpcode carrying exactly that byte;
\* and InvalidOpcode is returned for no other reason.
C13_InvalidOpcode ==
    /\ (last_pc >= 0 /\ At(prog, last_pc) \notin DefinedOpcodes) =>
           /\ status = "err"
           /\ error = [kind |-> "InvalidOpcode", val |-> At(prog, last_pc)]
    /\ (status = "err" /\ error.kind = "InvalidOpcode") =>
           /\ At(prog, last_pc) \notin DefinedOpcodes
           /\ error.val = At(prog, last_pc)

\* an invalid byte reached by a jump into the operand of an instruction
C13_Witness ==
    /\ status = "err"
    /\ error = [kind |-> "InvalidOpcode", val |-> 0]
    /\ last_pc = 2

\* the opcode of the conditional jump executed last, and its twin: same
\* direction, opposite condition
LastOp == At(prog, last_pc)
TwinOp(op) ==
    CASE op = JUMP_FORWARD_IF_FALSE -> JUMP_FORWARD_IF_TRUE
      [] op = JUMP_FORWARD_IF_TRUE -> JUMP_FORWARD_IF_FALSE
      [] op = JUMP_BACKWARD_IF_FALSE -> JUMP_BACKWARD_IF_TRUE
      [] op = JUMP_BACKWARD_IF_TRUE -> JUMP_BACKWARD_IF_FALSE
TwinPc ==
    ExecuteInstruction([prog EXCEPT ![last_pc + 1] = TwinOp(LastOp)],
                       last_pc, registers).pc
\* the jump target differs from the fall-through pc, so taking it shows
TargetShows == LastOffset # (IF LastOp \in ForwardOps THEN 2 ELSE 0)

\* C18: a conditional jump with a valid target is taken iff the raw word of
\* its condition register is non-zero (*_IF_TRUE) or zero (*_IF_FALSE); on
\* the same registers exactly one of the two variants with the same operands
\* takes the jump.
C18_ConditionIsRawWord ==
    (JumpDone(CondJumpOps) /\ Continues /\ TargetShows) =>
        LET word == RegGet(registers, At(prog, last_pc + 1))
            took == pc # last_pc + 4
        IN  /\ took <=> ((LastOp \in IfTrueOps) <=> (word # Zero64))
            /\ took # (TwinPc # last_pc + 4)

\* taken on a word whose low seven bytes are all zero
C18_Witness ==
    /\ JumpDone(IfTrueOps)
    /\ Continues
    /\ TargetShows
    /\ RegGet(registers, At(prog, last_pc + 1)) = HighBit64
    /\ pc # last_pc + 4

-----------------------------------------------------------------------------
(* SpecDecode: eval_program over one instruction of every opcode, cut off  *)
(* after each of its bytes, alone or behind a complete GT_I64.             *)

Int3Ops == {ADD_I64, SUB_I64, MUL_I64, GT_I64}
Float3Ops == {ADD_F64, SUB_F64, MUL_F64, GT_F64}
LoadOps == {LOAD_I64, LOAD_F64}
ConvertOps == {I64_TO_F64, F64_TO_I64}

\* bytes of an instruction, opcode included (the "Format:" comments)
InstrSize(opcode) ==
    CASE opcode \in LoadOps -> 10
      [] opcode \in Int3Ops \cup Float3Ops -> 4
      [] opcode \in CondJumpOps -> 4
      [] opcode = JMP -> 3
      [] opcode \in ConvertOps -> 3

FullInstrs ==
    {<<op, r>> \o w : op \in LoadOps, r \in {0, 1}, w \in {Zero64, One64}}
    \cup {<<op, 0, 1, d>> : op \in Int3Ops \cup Float3Ops, d \in {0, 1}}
    \cup {<<op, 0>> \o to_le_bytes(k) : op \in CondJumpOps, k \in 0..2}
    \cup {<<JMP>> \o to_le_bytes(t) : t \in {0, 3, 7, 8}}
    \cup {<<op, 0, 1>> : op \in ConvertOps}

Prefixes(instr) == {SubSeq(instr, 1, n) : n \in 1..Len(instr)}

DecodePrograms ==
    {lead \o cut : lead \in {<<>>, <<GT_I64, 0, 1, 1>>},
                   cut \in UNION {Prefixes(instr) : instr \in FullInstrs}}

InitDecode ==
    /\ prog \in DecodePrograms
    /\ overflow_checks \in BOOLEAN
    /\ VmNew
    /\ BuilderNew
    /\ TimerNew
    /\ RegFileNew
    /\ ExtNew

NextRun ==
    \/ EvalProgram
    \/ Step

SpecDecode == InitDecode /\ [][NextRun]_vars

\* the instruction executed last lacks operand bytes / has them all
LastCut == last_pc + InstrSize(LastOp) > Len(prog)
LastAtEnd == last_pc + InstrSize(LastOp) = Len(prog)

\* C12: an instruction of any opcode with fewer operand bytes left in the
\* buffer than it requires fails with UnexpectedEndOfProgram and writes no
\* register; an instruction whose last operand byte is the last byte of the
\* buffer never fails so, and when it is not a jump, or is a conditional
\* jump that falls through, the run then ends with Ok at pc = len.
C12_OperandBounds ==
    (last_pc >= 0 /\ LastOp \in DefinedOpcodes) =>
        IF LastCut
        THEN /\ status = "err"
             /\ error = [kind |-> "UnexpectedEndOfProgram", val |-> 0]
             /\ registers = [r \in {} |-> Zero64]
        ELSE /\ error.kind # "UnexpectedEndOfProgram"
             /\ (LastAtEnd /\ LastOp \notin CondJumpOps \cup {JMP}) =>
                    (status = "ok" /\ pc = Len(prog))
             /\ (LastAtEnd /\ LastOp \in CondJumpOps /\ Continues
                     /\ ~LastSatisfied) =>
                    (status = "ok" /\ pc = Len(prog))

\* a LOAD_I64 whose eighth value byte is the last byte of the buffer
C12_Witness ==
    /\ last_pc = 4
    /\ LastOp = LOAD_I64
    /\ Len(prog) = 14
    /\ status = "ok"
    /\ RegGet(registers, 1) = One64

-----------------------------------------------------------------------------
(* SpecArith: LOAD_I64 r0, a; LOAD_I64 r1, b; op r1, r2, dst for the       *)
(* integer opcodes, over words at the edges of the i64 range and every     *)
(* aliasing of the three register operands.                                *)

MinusOne64 == <<255, 255, 255, 255, 255, 255, 255, 255>>
MaxI64 == <<255, 255, 255, 255, 255, 255, 255, 127>>
Pow32 == <<0, 0, 0, 0, 1, 0, 0, 0>>
LowMask32 == <<255, 255, 255, 255, 0, 0, 0, 0>>
Mixed64 == <<239, 205, 171, 137, 103, 69, 35, 129>>

Words == {Zero64, One64, MinusOne64, MaxI64, HighBit64, Pow32, LowMask32, Mixed64}

ArithPrograms ==
    {<<LOAD_I64, 0>> \o a \o <<LOAD_I64, 1>> \o b \o <<op, rr[1], rr[2], dst>> :
        a \in Words, b \in Words, op \in Int3Ops,
        rr \in {<<0, 1>>, <<1, 0>>, <<0, 0>>}, dst \in {0, 1, 2}}

InitArith ==
    /\ prog \in ArithPrograms
    /\ overflow_checks \in BOOLEAN
    /\ VmNew
    /\ BuilderNew
    /\ TimerNew
    /\ RegFileNew
    /\ ExtNew

SpecArith == InitArith /\ [][NextRun]_vars

\* the third instruction has run: its operands as the two loads left them
ArithDone == last_pc = 20
Loaded(reg) == IF reg = 0 THEN read_i64(prog, 2) ELSE read_i64(prog, 12)
Val1 == Loaded(At(prog, 21))
Val2 == Loaded(At(prog, 22))
Dst == RegGet(registers, At(prog, 23))

\* reference arithmetic modulo 2^64 on the sixteen hexadecimal digits of a
\* word, digit 1 lowest: long addition, and long multiplication row by row
ToDigits(w) ==
    [i \in 1..16 |-> (w[((i - 1) \div 2) + 1] \div (IF i % 2 = 1 THEN 1 ELSE 16)) % 16]
DigitsZero == [i \in 1..16 |-> 0]
DigitsOne == [i \in 1..16 |-> IF i = 1 THEN 1 ELSE 0]
DigitsNot(x) == [i \in 1..16 |-> 15 - x[i]]

RECURSIVE DigitsAddFrom(_, _, _, _)
DigitsAddFrom(x, y, i, c) ==
    IF i > 16 THEN <<>>
    ELSE LET t == x[i] + y[i] + c
         IN  <<t % 16>> \o DigitsAddFrom(x, y, i + 1, t \div 16)

DigitsAdd(x, y) == DigitsAddFrom(x, y, 1, 0)
DigitsSub(x, y) == DigitsAdd(DigitsAdd(x, DigitsNot(y)), DigitsOne)

\* long multiplication on the eight base-256 digits of a word: row i is x
\* times digit i of y, shifted i - 1 digits; the rows lo .. hi are summed
\* pairwise
RECURSIVE RowScaleFrom(_, _, _, _)
RowScaleFrom(x, d, i, c) ==
    IF i > 8 THEN <<>>
    ELSE <<(x[i] * d + c) % 256>> \o RowScaleFrom(x, d, i + 1, (x[i] * d + c) \div 256)

RowShift(x, n) == [i \in 1..n |-> 0] \o SubSeq(x, 1, 8 - n)

RECURSIVE RowAddFrom(_, _, _, _)
RowAddFrom(x, y, i, c) ==
    IF i > 8 THEN <<>>
    ELSE <<(x[i] + y[i] + c) % 256>> \o RowAddFrom(x, y, i + 1, (x[i] + y[i] + c) \div 256)

RECURSIVE RowsSum(_, _, _, _)
RowsSum(x, y, lo, hi) ==
    IF lo = hi THEN RowShift(RowScaleFrom(x, y[lo], 1, 0), lo - 1)
    ELSE RowAddFrom(RowsSum(x, y, lo, (lo + hi) \div 2),
                    RowsSum(x, y, (lo + hi) \div 2 + 1, hi), 1, 0)

\* the product of two words, as sixteen hexadecimal digits
WordMul(a, b) == ToDigits(RowsSum(a, b, 1, 8))

\* C16: for all words a and b, ADD_I64, SUB_I64 and MUL_I64 store in dst
\* exactly a + b, a - b and a * b reduced modulo 2^64 and the run ends with
\* Ok, with or without overflow checks, also when dst is a source register.
C16_WrappingArithmetic ==
    (ArithDone /\ LastOp \in {ADD_I64, SUB_I64, MUL_I64}) =>
        /\ status = "ok"
        /\ ToDigits(Dst) =
              CASE LastOp = ADD_I64 -> DigitsAdd(ToDigits(Val1), ToDigits(Val2))
                [] LastOp = SUB_I64 -> DigitsSub(ToDigits(Val1), ToDigits(Val2))
                [] LastOp = MUL_I64 -> WordMul(Val1, Val2)

\* i64::MAX + 1 wraps to i64::MIN, written over the first source register
C16_Witness ==
    /\ ArithDone
    /\ LastOp = ADD_I64
    /\ overflow_checks
    /\ Val1 = MaxI64
    /\ Val2 = One64
    /\ At(prog, 23) = At(prog, 21)
    /\ Dst = HighBit64
    /\ status = "ok"

\* signed order is unsigned order after adding 2^63 to both words
Biased(w) == [i \in 1..8 |-> IF i = 8 THEN (w[8] + 128) % 256 ELSE w[i]]
LexGt(x, y) ==
    \E i \in 1..8 : x[i] > y[i] /\ \A j \in (i + 1)..8 : x[j] = y[j]

-----------------------------------------------------------------------------
(* SpecTimeout: eval_program_with_timeout.  The clock is read only at the  *)
(* sample points; elapsed is the last reading.  Between two sample points  *)
(* (TIMEOUT_CHECK_INTERVAL instructions) the clock advances by at least    *)
(* one tick and at most MaxTick.                                           *)

TIMEOUT_CHECK_INTERVAL == 1000

Timeouts == {NoTimeout} \cup 0..MaxTimeout

\* instructions a run without a timeout is followed for
MaxCount == TIMEOUT_CHECK_INTERVAL * (MaxTimeout + 2)

\* the 64-bit word of a small natural
WordOf(n) == <<n % 256, n \div 256, 0, 0, 0, 0, 0, 0>>

\* r1 = n; r2 = 1; while r1 > r3 { r1 = r1 - r2 }
Countdown(n) ==
    <<LOAD_I64, 1>> \o WordOf(n) \o <<LOAD_I64, 2>> \o One64
    \o <<GT_I64, 1, 3, 4>>
    \o <<JUMP_FORWARD_IF_FALSE, 4>> \o to_le_bytes(9)
    \o <<SUB_I64, 1, 2, 1>>
    \o <<JMP>> \o to_le_bytes(20)

\* programs that never leave their loop
ForeverPrograms ==
    {<<JMP, 0, 0>>,
     <<GT_I64, 0, 1, 1, GT_I64, 1, 0, 0, JMP, 0, 0>>}

TimeoutPrograms ==
    ForeverPrograms
    \cup {Countdown(2), Countdown(249), Countdown(300)}
    \cup {<<>>, <<GT_I64, 0, 1, 1>>, <<GT_I64, 0, 1, 1, 255>>}

InitTimeout ==
    /\ prog \in TimeoutPrograms
    /\ overflow_checks \in BOOLEAN
    /\ VmNew
    /\ BuilderNew
    /\ TimerNew
    /\ RegFileNew
    /\ ExtNew

\* eval_program_with_timeout entry: the locals, then the loop test
EvalProgramWithTimeout(t) ==
    /\ status = "idle"
    /\ timeout' = t
    /\ pc' = 0
    /\ instruction_count' = 0
    /\ elapsed' = 0
    /\ status' = IF 0 < Len(prog) THEN "running" ELSE "ok"
    /\ UNCHANGED <<prog, registers, last_pc, error, overflow_checks>>
    /\ UNCHANGED <<builderVars, regFileVars, extVars>>

SamplePoint_Every(n) == TRUE

\* instruction_count % TIMEOUT_CHECK_INTERVAL == 0
SamplePoint(n) == n % TIMEOUT_CHECK_INTERVAL = 0

Expired_Never(e, t) == FALSE

\* elapsed > timeout_duration
Expired(e, t) == e > t

\* one iteration of the while loop: the instruction, the count, the sample,
\* and the loop test that follows
StepWithTimeout ==
    /\ status = "running"
    /\ pc < Len(prog)
    /\ instruction_count < MaxCount
    /\ LET r == ExecuteInstruction(prog, pc, registers)
           n == instruction_count + 1
           goes_on == IF r.pc < Len(prog) THEN "running" ELSE "ok"
       IN  /\ pc' = r.pc
           /\ last_pc' = pc
           /\ registers' = r.registers
           /\ IF r.res # "Ok"
              THEN /\ status' = IF r.res \in {"Panic", "Unmodelled"}
                                THEN r.res ELSE "err"
                   /\ error' = [kind |-> r.res, val |-> r.val]
                   /\ UNCHANGED <<instruction_count, elapsed>>
              ELSE /\ instruction_count' = n
                   /\ IF timeout # NoTimeout /\ SamplePoint(n)
                      THEN \E e \in (elapsed + 1)..(elapsed + MaxTick) :
                              /\ elapsed' = e
                              /\ IF Expired(e, timeout)
                                 THEN /\ status' = "err"
                                      /\ error' = [kind |-> "Timeout", val |-> e]
                                 ELSE /\ status' = goes_on
                                      /\ error' = NoError
                      ELSE /\ elapsed' = elapsed
                           /\ status' = goes_on
                           /\ error' = NoError
    /\ UNCHANGED <<prog, overflow_checks, timeout>>
    /\ UNCHANGED <<builderVars, regFileVars, extVars>>

NextTimeout ==
    \/ \E t \in Timeouts : EvalProgramWithTimeout(t)
    \/ StepWithTimeout

SpecTimeout == InitTimeout /\ [][NextTimeout]_vars

\* the loop runs whenever it can
SpecTimeoutLive == SpecTimeout /\ WF_vars(StepWithTimeout)

\* what eval_program returns for bc: the loop without a timeout, followed
\* for at most fuel instructions
RECURSIVE EvalProgramResult(_, _, _, _)
EvalProgramResult(bc, p, regs, fuel) ==
    IF ~(p < Len(bc)) THEN [status |-> "ok", error |-> NoError, registers |-> regs]
    ELSE IF fuel = 0 THEN [status |-> "running", error |-> NoError, registers |-> regs]
    ELSE LET r == ExecuteInstruction(bc, p, regs)
         IN  IF r.res = "Ok" THEN EvalProgramResult(bc, r.pc, r.registers, fuel - 1)
             ELSE [status |-> IF r.res \in {"Panic", "Unmodelled"} THEN r.res ELSE "err",
                   error |-> [kind |-> r.res, val |-> r.val],
                   registers |-> r.registers]

Returned == status \in {"ok", "err", "Panic"}

\* C14: Timeout is returned only right after the instruction whose ordinal
\* in the run is a positive multiple of TIMEOUT_CHECK_INTERVAL, and only
\* when a timeout was given; a run that returns after fewer than
\* TIMEOUT_CHECK_INTERVAL instructions returns what eval_program returns and
\* leaves the registers eval_program leaves, for every timeout.
C14_TimeoutOnlyAtSamplePoints ==
    /\ (status = "err" /\ error.kind = "Timeout") =>
           /\ timeout # NoTimeout
           /\ instruction_count > 0
           /\ instruction_count % TIMEOUT_CHECK_INTERVAL = 0
    /\ (Returned /\ instruction_count < TIMEOUT_CHECK_INTERVAL) =>
           [status |-> status, error |-> error, registers |-> registers]
             = EvalProgramResult(prog, 0, [r \in {} |-> Zero64],
                                 TIMEOUT_CHECK_INTERVAL)

\* Timeout at the 1000th instruction of a program that would have ended
C14_Witness ==
    /\ prog = Countdown(300)
    /\ timeout = 0
    /\ status = "err"
    /\ error.kind = "Timeout"
    /\ instruction_count = TIMEOUT_CHECK_INTERVAL

\* C15: with a bytecode that loops forever and a finite timeout, the run
\* eventually returns Timeout(elapsed) with elapsed greater than the limit,
\* and it never runs on past a sample point at which the deadline has
\* passed.
C15_TimeoutLiveness ==
    /\ (status = "running" /\ prog \in ForeverPrograms /\ timeout # NoTimeout)
          ~> (status = "err" /\ error.kind = "Timeout" /\ error.val > timeout)
    /\ [](( /\ status = "running"
            /\ timeout # NoTimeout
            /\ instruction_count > 0
            /\ instruction_count % TIMEOUT_CHECK_INTERVAL = 0)
           => elapsed <= timeout)

\* the deadline of one tick passes between the first and the second sample
C15_Witness ==
    /\ prog \in ForeverPrograms
    /\ timeout = 1
    /\ status = "err"
    /\ error = [kind |-> "Timeout", val |-> 2]
    /\ instruction_count = 2 * TIMEOUT_CHECK_INTERVAL

-----------------------------------------------------------------------------
(* SpecRegisters: the register file of src/src/vm/registers.rs, a fixed    *)
(* array of FIXED_COUNT words followed by a spill vector that grows on     *)
(* demand.  No arithmetic is done on the words, so they are naturals.      *)

\* Vec::resize(new_len, value)
Resize(v, new_len, value) ==
    IF new_len <= Len(v) THEN SubSeq(v, 1, new_len)
    ELSE v \o [k \in 1..(new_len - Len(v)) |-> value]

RegistersGet_DefaultOne(fx, sp, index) ==
    IF index < FIXED_COUNT THEN fx[index]
    ELSE LET spill_index == index - FIXED_COUNT
         IN  IF spill_index < Len(sp) THEN sp[spill_index + 1] ELSE 1

\* Registers::get
RegistersGet(fx, sp, index) ==
    IF index < FIXED_COUNT THEN fx[index]
    ELSE LET spill_index == index - FIXED_COUNT
         IN  IF spill_index < Len(sp) THEN sp[spill_index + 1] ELSE 0

RegistersSet_Truncating(fx, sp, index, value) ==
    IF index < FIXED_COUNT
    THEN [fixed |-> [fx EXCEPT ![index] = value], spill |-> sp]
    ELSE LET spill_index == index - FIXED_COUNT
             grown == Resize(sp, spill_index + 1, 0)
         IN  [fixed |-> fx, spill |-> [grown EXCEPT ![spill_index + 1] = value]]

\* Registers::set
RegistersSet(fx, sp, index, value) ==
    IF index < FIXED_COUNT
    THEN [fixed |-> [fx EXCEPT ![index] = value], spill |-> sp]
    ELSE LET spill_index == index - FIXED_COUNT
             grown == IF spill_index >= Len(sp)
                      THEN Resize(sp, spill_index + 1, 0) ELSE sp
         IN  [fixed |-> fx, spill |-> [grown EXCEPT ![spill_index + 1] = value]]

\* Registers::ensure_len: the spill vector it leaves
RegistersEnsureLen(sp, len) ==
    IF len <= FIXED_COUNT THEN sp
    ELSE LET spill_needed == len - FIXED_COUNT
         IN  IF spill_needed > Len(sp) THEN Resize(sp, spill_needed, 0) ELSE sp

\* first and last fixed register, first spill register, one inside and one
\* just beyond the initial spill capacity
RegIndices ==
    {0, FIXED_COUNT - 1, FIXED_COUNT, FIXED_COUNT + 144, FIXED_COUNT + SPILL_INIT}
EnsureLens == {FIXED_COUNT, FIXED_COUNT + 44, FIXED_COUNT + SPILL_INIT + 88}
RegWords == 0..MaxWord

InitRegisters ==
    /\ prog = <<>>
    /\ overflow_checks = FALSE
    /\ VmNew
    /\ BuilderNew
    /\ TimerNew
    /\ RegFileNew
    /\ ExtNew

\* regs.set(index, value)
Set(index, value) ==
    /\ LET r == RegistersSet(fixed, spill, index, value)
       IN  /\ fixed' = r.fixed
           /\ spill' = r.spill
    /\ written' = [i \in DOMAIN written \cup {index} |->
                      IF i = index THEN value ELSE written[i]]
    /\ last_op' = [op |-> "set", index |-> index, value |-> value]
    /\ UNCHANGED <<vmVars, overflow_checks, builderVars, timerVars, extVars>>

\* regs.ensure_len(len)
EnsureLen(len) ==
    /\ spill' = RegistersEnsureLen(spill, len)
    /\ last_op' = [op |-> "ensure_len", index |-> len, value |-> 0]
    /\ UNCHANGED <<fixed, written>>
    /\ UNCHANGED <<vmVars, overflow_checks, builderVars, timerVars, extVars>>

\* regs.get(index), through &self
Get(index) ==
    /\ last_op' = [op |-> "get", index |-> index,
                   value |-> RegistersGet(fixed, spill, index)]
    /\ UNCHANGED <<fixed, spill, written>>
    /\ UNCHANGED <<vmVars, overflow_checks, builderVars, timerVars, extVars>>

NextRegisters ==
    \/ \E index \in RegIndices, value \in RegWords : Set(index, value)
    \/ \E len \in EnsureLens : EnsureLen(len)
    \/ \E index \in RegIndices : Get(index)

SpecRegisters == InitRegisters /\ [][NextRegisters]_vars

\* the indices read back: every index set, every length ensured, and the
\* neighbours of each
ProbeIndices ==
    {i \in UNION {{n - 1, n, n + 1} : n \in RegIndices \cup EnsureLens} : i >= 0}

\* C19: after any sequence of set and ensure_len calls that never wrote
\* index i, get(i) returns 0, for i in the fixed region, inside the spill
\* vector and beyond its length; and get changes neither region.
C19_ZeroInitialized ==
    /\ [](/\ (\A i \in ProbeIndices \ DOMAIN written :
                  RegistersGet(fixed, spill, i) = 0)
          /\ ((last_op.op = "get" /\ last_op.index \notin DOMAIN written) =>
                  last_op.value = 0))
    /\ [][last_op'.op = "get" => UNCHANGED <<fixed, spill>>]_vars

\* the spill vector has grown over an index never written, and get reads 0
C19_Witness ==
    /\ last_op = [op |-> "get", index |-> FIXED_COUNT + 144, value |-> 0]
    /\ FIXED_COUNT + 144 \notin DOMAIN written
    /\ Len(spill) = SPILL_INIT + 1
    /\ spill[SPILL_INIT + 1] = 1

\* C20: get(i) returns the word the last set(i, w) wrote, whatever was
\* called since; set(i, w) changes get(j) for no j other than i, also when
\* it grows the spill vector; ensure_len changes get(j) for no j.
C20_SetGetFrame ==
    /\ [](\A i \in DOMAIN written : RegistersGet(fixed, spill, i) = written[i])
    /\ [][/\ (last_op'.op = "set" =>
                (\A j \in ProbeIndices \ {last_op'.index} :
                    RegistersGet(fixed', spill', j) = RegistersGet(fixed, spill, j)))
           /\ (last_op'.op = "ensure_len" =>
                (\A k \in ProbeIndices :
                    RegistersGet(fixed', spill', k) = RegistersGet(fixed, spill, k)))]_vars

\* a set of the first spill register, below spill registers already written,
\* next to the last fixed register
C20_Witness ==
    /\ last_op = [op |-> "set", index |-> FIXED_COUNT, value |-> 1]
    /\ FIXED_COUNT - 1 \in DOMAIN written
    /\ written[FIXED_COUNT - 1] = 1
    /\ FIXED_COUNT + SPILL_INIT \in DOMAIN written
    /\ written[FIXED_COUNT + SPILL_INIT] = 1
    /\ RegistersGet(fixed, spill, FIXED_COUNT + SPILL_INIT) = 1

-----------------------------------------------------------------------------
(***************************************************************************)
(* ConstPool (src/src/vm/const_pool.rs).  The two tables are vectors; a    *)
(* vector index k of the source is position k + 1 of the sequence.  An     *)
(* Option is the empty sequence (None) or a one-element sequence (Some).   *)
(***************************************************************************)

MaxPool == 3        \* add calls made on one pool

None == <<>>
Some(x) == <<x>>

\* HashMap::insert: the new index replaces the one the key had
MapInsert_KeepFirst(map, key, index) ==
    [n \in DOMAIN map \cup {key} |-> IF n \in DOMAIN map THEN map[n] ELSE index]
MapInsert(map, key, index) ==
    [n \in DOMAIN map \cup {key} |-> IF n = key THEN index ELSE map[n]]

\* ConstPool::add_value -> index
add_value_CountAfterPush(vals, meta, map, name, value, typ) ==
    LET index == Len(vals) + 1
    IN  [values |-> Append(vals, value),
         value_metadata |-> Append(meta, [name |-> name, typ |-> typ, index |-> index]),
         value_name_to_index |-> MapInsert(map, name, index),
         index |-> index]
add_value(vals, meta, map, name, value, typ) ==
    LET index == Len(vals)
    IN  [values |-> Append(vals, value),
         value_metadata |-> Append(meta, [name |-> name, typ |-> typ, index |-> index]),
         value_name_to_index |-> MapInsert(map, name, index),
         index |-> index]

\* ConstPool::add_slice -> index
add_slice(slcs, meta, map, name, data, typ) ==
    LET index == Len(slcs)
    IN  [slices |-> Append(slcs, data),
         slice_metadata |-> Append(meta, [name |-> name, typ |-> typ, index |-> index]),
         slice_name_to_index |-> MapInsert(map, name, index),
         index |-> index]

\* ConstPool::get_value
get_value(map, vals, name) ==
    IF name \in DOMAIN map THEN Some(vals[map[name] + 1]) ELSE None

\* ConstPool::get_slice
get_slice(map, slcs, name) ==
    IF name \in DOMAIN map THEN Some(slcs[map[name] + 1]) ELSE None

PoolNames == {"", "a", "b"}
ValueTypes == {"I64", "FuncHost"}
SliceTypes == {"Utf8Str"}
PoolValues == {1, 41}
PoolData == {<<104>>, <<104, 105>>}

InitConstPool ==
    /\ prog = <<>>
    /\ overflow_checks = FALSE
    /\ VmNew
    /\ BuilderNew
    /\ TimerNew
    /\ RegFileNew
    /\ ExtNew

\* pool.add_value(name, value, typ)
AddValue(name, value, typ) ==
    /\ Len(values) + Len(slices) < MaxPool
    /\ LET r == add_value(values, value_metadata, value_name_to_index,
                          name, value, typ)
       IN  /\ values' = r.values
           /\ value_metadata' = r.value_metadata
           /\ value_name_to_index' = r.value_name_to_index
           /\ last_add' = [table |-> "value", name |-> name, index |-> r.index]
    /\ UNCHANGED <<slices, slice_metadata, slice_name_to_index>>
    /\ UNCHANGED <<coreVars, callVars, fmtVars, cgVars, cmpVars>>

\* pool.add_slice(name, data, typ)
AddSlice(name, data, typ) ==
    /\ Len(values) + Len(slices) < MaxPool
    /\ LET r == add_slice(slices, slice_metadata, slice_name_to_index,
                          name, data, typ)
       IN  /\ slices' = r.slices
           /\ slice_metadata' = r.slice_metadata
           /\ slice_name_to_index' = r.slice_name_to_index
           /\ last_add' = [table |-> "slice", name |-> name, index |-> r.index]
    /\ UNCHANGED <<values, value_metadata, value_name_to_index>>
    /\ UNCHANGED <<coreVars, callVars, fmtVars, cgVars, cmpVars>>

NextConstPool ==
    \/ \E name \in PoolNames, value \in PoolValues, typ \in ValueTypes :
          AddValue(name, value, typ)
    \/ \E name \in PoolNames, data \in PoolData, typ \in SliceTypes :
          AddSlice(name, data, typ)

SpecConstPool == InitConstPool /\ [][NextConstPool]_vars

\* the entries below position n are the same before and after the step
PrefixKept(before, after) ==
    /\ Len(after) >= Len(before)
    /\ \A k \in 1..Len(before) : after[k] = before[k]

\* C21: an add returns the number of entries its own table held before the
\* call (so the indices of a table are 0, 1, 2, ... whatever is added to
\* the other table), and no add changes the payload, the type tag or the
\* metadata stored at an index returned earlier.
C21_IndexStability ==
    /\ [](/\ Len(value_metadata) = Len(values)
          /\ Len(slice_metadata) = Len(slices)
          /\ (\A k \in 1..Len(values) : value_metadata[k].index = k - 1)
          /\ (\A j \in 1..Len(slices) : slice_metadata[j].index = j - 1))
    /\ [][/\ (last_add'.table = "value" =>
                /\ last_add'.index = Len(values)
                /\ Len(values') = Len(values) + 1)
          /\ (last_add'.table = "slice" =>
                /\ last_add'.index = Len(slices)
                /\ Len(slices') = Len(slices) + 1)
          /\ PrefixKept(values, values')
          /\ PrefixKept(value_metadata, value_metadata')
          /\ PrefixKept(slices, slices')
          /\ PrefixKept(slice_metadata, slice_metadata')]_vars

\* a value was added after a slice and after another value: it got index 1
\* while the slice got index 0, and the first value is still at index 0
C21_Witness ==
    /\ Len(values) = 2
    /\ Len(slices) = 1
    /\ last_add = [table |-> "value", name |-> "b", index |-> 1]
    /\ values[1] = 41
    /\ value_metadata[1] = [name |-> "a", typ |-> "FuncHost", index |-> 0]
    /\ slice_metadata[1].index = 0

\* the positions of the entries added under a name
Named(meta, name) == {k \in 1..Len(meta) : meta[k].name = name}
Latest(S) == CHOOSE k \in S : \A j \in S : j <= k

\* C22: every add makes an entry of its own, readable at its own index even
\* when its name was used before; get_value / get_slice return the payload
\* of the entry added last under the name, and None for a name never added.
C22_LatestByName ==
    /\ \A n \in PoolNames :
          /\ get_value(value_name_to_index, values, n) =
                IF Named(value_metadata, n) = {} THEN None
                ELSE Some(values[Latest(Named(value_metadata, n))])
          /\ get_slice(slice_name_to_index, slices, n) =
                IF Named(slice_metadata, n) = {} THEN None
                ELSE Some(slices[Latest(Named(slice_metadata, n))])
    /\ \A k1, k2 \in 1..Len(value_metadata) :
          k1 # k2 => /\ value_metadata[k1].index # value_metadata[k2].index
                     /\ value_metadata[k1].index < Len(values)
    /\ \A j1, j2 \in 1..Len(slice_metadata) :
          j1 # j2 => /\ slice_metadata[j1].index # slice_metadata[j2].index
                     /\ slice_metadata[j1].index < Len(slices)

\* "a" was added twice with different payloads, "b" in between
C22_Witness ==
    /\ Len(values) = 3
    /\ value_metadata[1].name = "a"
    /\ value_metadata[2].name = "b"
    /\ value_metadata[3].name = "a"
    /\ values[1] = 1
    /\ values[3] = 41
    /\ get_value(value_name_to_index, values, "a") = Some(41)

\* C23: a constant added under the empty name gets no name-map entry:
\* get_value("") and get_slice("") return None.
C23_EmptyNameUnmapped ==
    /\ get_value(value_name_to_index, values, "") = None
    /\ get_slice(slice_name_to_index, slices, "") = None

-----------------------------------------------------------------------------
(***************************************************************************)
(* Host calls (src/src/vm/call.rs, src/src/vm/tests_call.rs).  The VM of   *)
(* this part keeps its registers in a Registers value (fixed, spill) and   *)
(* owns a constant pool, a host-function registry and a call stack.  The   *)
(* LOAD_CONST_VALUE and CALL_HOST arms of the dispatcher follow the        *)
(* dispatcher description of the specification (section 4.5); the          *)
(* registry, the frames, current_base and the callbacks follow the source. *)
(***************************************************************************)

MaxCalls == 2       \* host calls in one program
MaxHostFns == 2     \* host functions registered on one VM

LOAD_CONST_VALUE == 18
LOAD_CONST_SLICE == 19
CALL_HOST == 20

\* HostFunctionRegistry::register -> index
register_CountAfterPush(hf, name, num_return_registers, num_params, num_registers, func) ==
    [host_functions |->
        [funcs |-> Append(hf.funcs, func),
         metadata |-> Append(hf.metadata,
            [name |-> name, num_return_registers |-> num_return_registers,
             num_params |-> num_params, num_registers |-> num_registers])],
     index |-> Len(hf.funcs) + 1]
register(hf, name, num_return_registers, num_params, num_registers, func) ==
    LET index == Len(hf.funcs)
    IN  [host_functions |->
            [funcs |-> Append(hf.funcs, func),
             metadata |-> Append(hf.metadata,
                [name |-> name, num_return_registers |-> num_return_registers,
                 num_params |-> num_params, num_registers |-> num_registers])],
         index |-> index]

\* VirtualMachine::current_base
current_base_Bottom(stack) ==
    IF stack = <<>> THEN 0 ELSE stack[1].base
current_base(stack) ==
    IF stack = <<>> THEN 0 ELSE stack[Len(stack)].base

\* what a HostFn leaves: the register file, the (index, value) writes it
\* made through Registers::set, and Ok(()) or Err(msg)
HostRes(fx, sp, writes, res, msg, out) ==
    [fixed |-> fx, spill |-> sp, writes |-> writes, res |-> res, msg |-> msg,
     out |-> out]

NoOutput == [fmt |-> "none"]

\* fn inc(base, registers): registers.set(base, registers.get(base + 1) + 1)
inc_ResultInArg(base, fx, sp) ==
    LET val == RegistersGet(fx, sp, base + 1)
        r == RegistersSet(fx, sp, base + 1, val + 1)
    IN  HostRes(r.fixed, r.spill, <<[index |-> base + 1, value |-> val + 1]>>,
                "Ok", "", NoOutput)
inc(base, fx, sp) ==
    LET val == RegistersGet(fx, sp, base + 1)
        r == RegistersSet(fx, sp, base, val + 1)
    IN  HostRes(r.fixed, r.spill, <<[index |-> base, value |-> val + 1]>>,
                "Ok", "", NoOutput)

\* a HostFn that returns Err(msg) and writes nothing
fail(base, fx, sp) == HostRes(fx, sp, <<>>, "Err", "failed", NoOutput)

\* the address the arena gave the bytes of slice constant idx
SlicePtr(idx) == 4096 + 64 * idx

\* std::slice::from_raw_parts(ptr, len): the bytes read, when ptr and len
\* lie inside one slice constant; reading anything else is undefined
ReadMemory(ptr, len) ==
    LET inside == {i \in 1..Len(slices) :
                     ptr = SlicePtr(i - 1) /\ len <= Len(slices[i])}
    IN  IF inside = {} THEN [defined |-> FALSE, bytes |-> <<>>]
        ELSE [defined |-> TRUE,
              bytes |-> SubSeq(slices[CHOOSE i \in inside : TRUE], 1, len)]

\* fn host_print(base, registers) of the code generator's tests
host_print(base, fx, sp) ==
    LET val == RegistersGet(fx, sp, base + 1)
        len == RegistersGet(fx, sp, base + 2)
    IN  IF len = 0
        THEN HostRes(fx, sp, <<>>, "Ok", "", [fmt |-> "Int", val |-> val])
        ELSE LET m == ReadMemory(val, len)
             IN  IF m.defined
                 THEN HostRes(fx, sp, <<>>, "Ok", "", [fmt |-> "Str", bytes |-> m.bytes])
                 ELSE HostRes(fx, sp, <<>>, "Ok", "", [fmt |-> "Undefined"])

\* the call through the fn pointer stored in the registry
Invoke(func, base, fx, sp) ==
    IF func = "inc" THEN inc(base, fx, sp)
    ELSE IF func = "print" THEN host_print(base, fx, sp)
    ELSE fail(base, fx, sp)

\* the callbacks registered: register("inc", 1, 1, 2, inc) as in the tests,
\* and a failing callback with a window of one register
HostFns ==
    {[name |-> "inc", num_return_registers |-> 1, num_params |-> 1,
      num_registers |-> 2],
     [name |-> "fail", num_return_registers |-> 0, num_params |-> 0,
      num_registers |-> 1]}

\* what one dispatched instruction leaves
CallRes(p, fx, sp, stack, log, wr, kind, v) ==
    [pc |-> p, fixed |-> fx, spill |-> sp, call_stack |-> stack,
     host_log |-> log, writes |-> wr, res |-> kind, val |-> v]

\* LOAD_CONST_VALUE: [opcode, dst, idx_lo, idx_hi]; p is the pc after the opcode
ExecLoadConstValue(bc, p, fx, sp, stack, log, vals) ==
    IF p + 2 >= Len(bc)
    THEN CallRes(p, fx, sp, stack, log, <<>>, "UnexpectedEndOfProgram", 0)
    ELSE LET dst == At(bc, p)
             idx == read_u16(bc, p + 1)
         IN  IF idx >= Len(vals)
             THEN CallRes(p, fx, sp, stack, log, <<>>, "InvalidConstIndex", idx)
             ELSE LET r == RegistersSet(fx, sp, dst, vals[idx + 1])
                  IN  CallRes(p + 3, r.fixed, r.spill, stack, log,
                              <<[index |-> dst, value |-> vals[idx + 1]]>>, "Ok", 0)

\* LOAD_CONST_SLICE: [opcode, dst, idx_lo, idx_hi]: pointer to dst, length
\* to dst + 1
ExecLoadConstSlice(bc, p, fx, sp, stack, log, slcs) ==
    IF p + 2 >= Len(bc)
    THEN CallRes(p, fx, sp, stack, log, <<>>, "UnexpectedEndOfProgram", 0)
    ELSE LET dst == At(bc, p)
             idx == read_u16(bc, p + 1)
         IN  IF idx >= Len(slcs)
             THEN CallRes(p, fx, sp, stack, log, <<>>, "InvalidConstIndex", idx)
             ELSE LET r1 == RegistersSet(fx, sp, dst, SlicePtr(idx))
                      r2 == RegistersSet(r1.fixed, r1.spill, dst + 1,
                                         Len(slcs[idx + 1]))
                  IN  CallRes(p + 3, r2.fixed, r2.spill, stack, log,
                              <<[index |-> dst, value |-> SlicePtr(idx)],
                                [index |-> dst + 1, value |-> Len(slcs[idx + 1])]>>,
                              "Ok", 0)

\* ADD_I64: [opcode, r1, r2, dst]; the words of the programs run here are
\* small, so the sum is below 2^64 and wrapping_add is the sum
ExecAddI64(bc, p, fx, sp, stack, log) ==
    IF p + 2 >= Len(bc)
    THEN CallRes(p, fx, sp, stack, log, <<>>, "UnexpectedEndOfProgram", 0)
    ELSE LET sum == RegistersGet(fx, sp, At(bc, p))
                    + RegistersGet(fx, sp, At(bc, p + 1))
             dst == At(bc, p + 2)
             r == RegistersSet(fx, sp, dst, sum)
         IN  CallRes(p + 3, r.fixed, r.spill, stack, log,
                     <<[index |-> dst, value |-> sum]>>, "Ok", 0)

\* call_stack.push(CallInfo::CallHost { base, top, host_fn_index })
PushFrame(stack, base, top, host_fn_index) ==
    Append(stack, [kind |-> "CallHost", base |-> base, top |-> top,
                   index |-> host_fn_index])

\* call_stack.pop()
PopFrame(stack) == SubSeq(stack, 1, Len(stack) - 1)

\* CALL_HOST: [opcode, reg_lo, reg_hi]; p is the pc after the opcode
ExecCallHost(bc, s, p, fx, sp, stack, log, hf) ==
    IF ~read_u16_ok(bc, p)
    THEN CallRes(p, fx, sp, stack, log, <<>>, "UnexpectedEndOfProgram", 0)
    ELSE LET reg == read_u16(bc, p)
             abs == current_base(stack) + reg
             fn_index == RegistersGet(fx, sp, abs)
         IN  IF fn_index >= Len(hf.funcs)
             THEN CallRes(p, fx, sp, stack, log, <<>>, "InvalidConstIndex", fn_index)
             ELSE LET base == abs
                      top == base + hf.metadata[fn_index + 1].num_registers - 1
                      ensured == RegistersEnsureLen(sp, top + 1)
                      pushed == PushFrame(stack, base, top, fn_index)
                      r == Invoke(hf.funcs[fn_index + 1], base, fx, ensured)
                      entry == [at |-> s, host_fn_index |-> fn_index,
                                base |-> base, call_stack |-> pushed,
                                current_base |-> current_base(pushed),
                                arg1 |-> RegistersGet(fx, ensured, base + 1),
                                arg2 |-> RegistersGet(fx, ensured, base + 2),
                                res |-> r.res, out |-> r.out]
                  IN  CallRes(p + 2, r.fixed, r.spill, PopFrame(pushed),
                              Append(log, entry), r.writes,
                              IF r.res = "Ok" THEN "Ok" ELSE "HostError",
                              IF r.res = "Ok" THEN 0 ELSE r.msg)

\* one dispatched instruction of the VM with constants and host calls
ExecuteCallInstruction(bc, s, fx, sp, stack, log, vals, slcs, hf) ==
    LET opcode == At(bc, s)
        p == s + 1
    IN  IF opcode = LOAD_CONST_VALUE
        THEN ExecLoadConstValue(bc, p, fx, sp, stack, log, vals)
        ELSE IF opcode = LOAD_CONST_SLICE
        THEN ExecLoadConstSlice(bc, p, fx, sp, stack, log, slcs)
        ELSE IF opcode = ADD_I64
        THEN ExecAddI64(bc, p, fx, sp, stack, log)
        ELSE IF opcode = CALL_HOST
        THEN ExecCallHost(bc, s, p, fx, sp, stack, log, hf)
        ELSE CallRes(p, fx, sp, stack, log, <<>>, "InvalidOpcode", opcode)

\* the constants of the programs: add_fn(vm, 0), add_fn(vm, 1), an index no
\* registry of the model holds, and two arguments
CallConsts == <<0, 1, 999, 5, 41>>
FnConsts == {0, 1, 2}
CallRegs == {10, 20, FIXED_COUNT - 1}
ArgConst(reg) == IF reg = 10 THEN 4 ELSE 3

\* load_const_value(index, reg): opcode, reg, idx_lo, idx_hi
load_const_value(bytes, index, reg) ==
    bytes \o <<LOAD_CONST_VALUE, reg, index % 256, index \div 256>>

\* load_const_slice(index, reg): opcode, reg, idx_lo, idx_hi
load_const_slice(bytes, index, reg) ==
    bytes \o <<LOAD_CONST_SLICE, reg, index % 256, index \div 256>>

\* call_host(reg): opcode, reg_lo, reg_hi
call_host(bytes, reg) == bytes \o <<CALL_HOST, reg % 256, reg \div 256>>

\* load the function index into reg and the argument into reg + 1 (when
\* reg + 1 is a byte), then call_host(reg)
CallGroup(reg, fnc) ==
    LET fn_loaded == load_const_value(<<>>, fnc, reg)
        arg_loaded == IF reg + 1 < 256
                      THEN load_const_value(fn_loaded, ArgConst(reg), reg + 1)
                      ELSE fn_loaded
    IN  call_host(arg_loaded, reg)

CallGroups == {CallGroup(reg, fnc) : reg \in CallRegs, fnc \in FnConsts}

CallPrograms ==
    {Flatten(ss) : ss \in UNION {[1..n -> CallGroups] : n \in 0..MaxCalls}}

RECURSIVE AddValues(_, _)
AddValues(ws, k) ==
    IF k = 0 THEN [values |-> <<>>, value_metadata |-> <<>>,
                   value_name_to_index |-> [n \in {} |-> 0]]
    ELSE LET before == AddValues(ws, k - 1)
         IN  add_value(before.values, before.value_metadata,
                       before.value_name_to_index, "", ws[k],
                       IF k <= 3 THEN "FuncHost" ELSE "I64")

InitCall ==
    /\ prog \in CallPrograms
    /\ overflow_checks = FALSE
    /\ VmNew
    /\ BuilderNew
    /\ TimerNew
    /\ RegFileNew
    /\ CallNew
    /\ FormatNew
    /\ CodegenNew
    /\ CompareNew
    /\ LET pool == AddValues(CallConsts, Len(CallConsts))
       IN  /\ values = pool.values
           /\ value_metadata = pool.value_metadata
           /\ value_name_to_index = pool.value_name_to_index
    /\ slices = <<>>
    /\ slice_metadata = <<>>
    /\ slice_name_to_index = [n \in {} |-> 0]
    /\ last_add = NoAdd

\* vm.host_functions.register(name, n_ret, n_params, n_regs, f) before the run
Register(f) ==
    /\ status = "idle"
    /\ Len(host_functions.funcs) < MaxHostFns
    /\ LET r == register(host_functions, f.name, f.num_return_registers,
                         f.num_params, f.num_registers, f.name)
       IN  /\ host_functions' = r.host_functions
           /\ issued' = issued \cup {r.index}
    /\ UNCHANGED <<call_stack, host_log>>
    /\ UNCHANGED <<coreVars, poolVars, fmtVars, cgVars, cmpVars>>

\* eval_program entry
EvalCallProgram ==
    /\ status = "idle"
    /\ pc' = 0
    /\ status' = IF 0 < Len(prog) THEN "running" ELSE "ok"
    /\ UNCHANGED <<prog, registers, last_pc, error, overflow_checks>>
    /\ UNCHANGED <<builderVars, timerVars, regFileVars, extVars>>

RECURSIVE Record(_, _, _)
Record(wr, ws, k) ==
    IF k > Len(ws) THEN wr
    ELSE Record([i \in DOMAIN wr \cup {ws[k].index} |->
                    IF i = ws[k].index THEN ws[k].value ELSE wr[i]], ws, k + 1)

\* one iteration of eval_program's loop
StepCall ==
    /\ status = "running"
    /\ pc < Len(prog)
    /\ LET r == ExecuteCallInstruction(prog, pc, fixed, spill, call_stack,
                                       host_log, values, slices, host_functions)
       IN  /\ pc' = r.pc
           /\ last_pc' = pc
           /\ fixed' = r.fixed
           /\ spill' = r.spill
           /\ call_stack' = r.call_stack
           /\ host_log' = r.host_log
           /\ written' = Record(written, r.writes, 1)
           /\ IF r.res = "Ok"
              THEN /\ status' = IF r.pc < Len(prog) THEN "running" ELSE "ok"
                   /\ error' = NoError
              ELSE /\ status' = "err"
                   /\ error' = [kind |-> r.res, val |-> r.val]
    /\ UNCHANGED <<prog, registers, overflow_checks, last_op>>
    /\ UNCHANGED <<builderVars, timerVars, poolVars, fmtVars, cgVars, cmpVars,
                   host_functions, issued>>

NextCall ==
    \/ \E f \in HostFns : Register(f)
    \/ EvalCallProgram
    \/ StepCall

SpecCall == InitCall /\ [][NextCall]_vars

\* the instruction about to be dispatched is a complete CALL_HOST
AtCallHost ==
    /\ status = "running"
    /\ pc < Len(prog)
    /\ At(prog, pc) = CALL_HOST
    /\ read_u16_ok(prog, pc + 1)

CallReg == read_u16(prog, pc + 1)
CallFnIndex == RegistersGet(fixed, spill, current_base(call_stack) + CallReg)

\* C24: the call stack is never empty; wherever an instruction can start or
\* eval_program has returned it holds the global frame alone, so the current
\* base is 0; every callback ran under a host-call frame pushed on top of
\* the global one, whose base was the current base it saw; and the frame is
\* gone after a callback that returned an error, surfaced as HostError.
C24_CallStackBalanced ==
    /\ Len(call_stack) >= 1
    /\ call_stack = <<Global>>
    /\ current_base(call_stack) = 0
    /\ \A i \in 1..Len(host_log) :
          LET e == host_log[i]
          IN  /\ Len(e.call_stack) = 2
              /\ e.call_stack[1] = Global
              /\ e.call_stack[2].kind = "CallHost"
              /\ e.call_stack[2].base = e.base
              /\ e.call_stack[2].index = e.host_fn_index
              /\ e.current_base = e.base
              /\ (e.res = "Err" =>
                    /\ i = Len(host_log)
                    /\ status = "err"
                    /\ error = [kind |-> "HostError", val |-> "failed"])
    /\ (status = "err" /\ error.kind = "HostError" =>
          /\ host_log # <<>>
          /\ host_log[Len(host_log)].res = "Err")

\* a successful call at base 10, then a callback that failed at base 20
C24_Witness ==
    /\ status = "err"
    /\ error.kind = "HostError"
    /\ Len(host_log) = 2
    /\ host_log[1].res = "Ok"
    /\ host_log[1].base = 10
    /\ host_log[2].res = "Err"
    /\ host_log[2].base = 20
    /\ call_stack = <<Global>>

\* C25: CALL_HOST(reg) whose register current_base + reg holds an index
\* that register() never returned fails with InvalidConstIndex(that index),
\* runs no callback, pushes no frame and changes no register.
C25_UnregisteredIndex ==
    [][(AtCallHost /\ CallFnIndex \notin issued) =>
          /\ status' = "err"
          /\ error' = [kind |-> "InvalidConstIndex", val |-> CallFnIndex]
          /\ host_log' = host_log
          /\ call_stack' = call_stack
          /\ fixed' = fixed
          /\ spill' = spill]_vars

\* index 1 was called on a registry that holds index 0 only, after a call
\* of index 0 that succeeded
C25_Witness ==
    /\ status = "err"
    /\ error = [kind |-> "InvalidConstIndex", val |-> 1]
    /\ Len(host_functions.funcs) = 1
    /\ At(prog, last_pc) = CALL_HOST
    /\ Len(host_log) = 1
    /\ RegistersGet(fixed, spill, 10) = 42

\* the registers compared before and after a call
CallProbes == 0..(FIXED_COUNT + 2)

\* C26: CALL_HOST(reg) on a registered index runs the callback with
\* base = current_base + reg and leaves every register outside
\* [base, base + n_regs) as it was; inc leaves regs[base + 1] + 1 at base;
\* every register holds the word written to it last, by an instruction or
\* by a callback, until the end of the run.
C26_HostWindow ==
    /\ [](\A i \in DOMAIN written : RegistersGet(fixed, spill, i) = written[i])
    /\ [][(AtCallHost /\ CallFnIndex \in issued) =>
            LET base == current_base(call_stack) + CallReg
                meta == host_functions.metadata[CallFnIndex + 1]
            IN  /\ Len(host_log') = Len(host_log) + 1
                /\ host_log'[Len(host_log')].base = base
                /\ host_log'[Len(host_log')].host_fn_index = CallFnIndex
                /\ (\A j \in CallProbes :
                      (j < base \/ j >= base + meta.num_registers) =>
                         RegistersGet(fixed', spill', j) = RegistersGet(fixed, spill, j))
                /\ (meta.name = "inc" =>
                      RegistersGet(fixed', spill', base) =
                         RegistersGet(fixed, spill, base + 1) + 1)]_vars

\* two calls of inc, at base 10 and at base 20: both results are in place
\* after eval_program has returned
C26_Witness ==
    /\ status = "ok"
    /\ Len(host_log) = 2
    /\ host_log[1].base = 10
    /\ host_log[2].base = 20
    /\ RegistersGet(fixed, spill, 10) = 42
    /\ RegistersGet(fixed, spill, 11) = 41
    /\ RegistersGet(fixed, spill, 20) = 6
    /\ RegistersGet(fixed, spill, 21) = 5

-----------------------------------------------------------------------------
(***************************************************************************)
(* format_bytecode (src/src/vm/print_bytecode.rs).  The String it returns  *)
(* is kept as what it was formatted from: one record per instruction line  *)
(* (start pc, mnemonic, decoded operands) and the two trailing lines       *)
(* pc=.. and bytecode.len()=..; an Err(String) is kept as the message's    *)
(* parts.                                                                  *)
(***************************************************************************)

MaxLead == 1        \* complete instructions in front of the one examined

GTE_I64 == 21
LT_I64 == 22
LTE_I64 == 23
GTE_F64 == 24
LT_F64 == 25
LTE_F64 == 26

\* the arms of format_bytecode's match, by the shape of their operands
FormatLoadOps == {LOAD_I64, LOAD_F64}
FormatConstOps == {LOAD_CONST_VALUE, LOAD_CONST_SLICE}
FormatThreeOps ==
    {ADD_I64, SUB_I64, MUL_I64, GT_I64, GTE_I64, LT_I64, LTE_I64,
     ADD_F64, SUB_F64, MUL_F64, GT_F64, GTE_F64, LT_F64, LTE_F64}
FormatCondOps ==
    {JUMP_FORWARD_IF_FALSE, JUMP_FORWARD_IF_TRUE,
     JUMP_BACKWARD_IF_FALSE, JUMP_BACKWARD_IF_TRUE}
FormatConvertOps == {I64_TO_F64, F64_TO_I64}

\* the mnemonic each arm prints, in its line and in its error
Mnemonic(opcode) ==
    CASE opcode = LOAD_I64 -> "LOAD_I64"
      [] opcode = LOAD_F64 -> "LOAD_F64"
      [] opcode = LOAD_CONST_VALUE -> "LOAD_CONST_VALUE"
      [] opcode = LOAD_CONST_SLICE -> "LOAD_CONST_SLICE"
      [] opcode = ADD_I64 -> "ADD_I64"
      [] opcode = SUB_I64 -> "SUB_I64"
      [] opcode = MUL_I64 -> "MUL_I64"
      [] opcode = GT_I64 -> "GT_I64"
      [] opcode = GTE_I64 -> "GTE_I64"
      [] opcode = LT_I64 -> "LT_I64"
      [] opcode = LTE_I64 -> "LTE_I64"
      [] opcode = ADD_F64 -> "ADD_F64"
      [] opcode = SUB_F64 -> "SUB_F64"
      [] opcode = MUL_F64 -> "MUL_F64"
      [] opcode = GT_F64 -> "GT_F64"
      [] opcode = GTE_F64 -> "GTE_F64"
      [] opcode = LT_F64 -> "LT_F64"
      [] opcode = LTE_F64 -> "LTE_F64"
      [] opcode = JUMP_FORWARD_IF_FALSE -> "JUMP_FORWARD_IF_FALSE"
      [] opcode = JUMP_FORWARD_IF_TRUE -> "JUMP_FORWARD_IF_TRUE"
      [] opcode = JUMP_BACKWARD_IF_FALSE -> "JUMP_BACKWARD_IF_FALSE"
      [] opcode = JUMP_BACKWARD_IF_TRUE -> "JUMP_BACKWARD_IF_TRUE"
      [] opcode = JMP -> "JMP"
      [] opcode = I64_TO_F64 -> "I64_TO_F64"
      [] opcode = F64_TO_I64 -> "F64_TO_I64"
      [] OTHER -> "UNKNOWN_OPCODE"

\* Err(format!("Incomplete {} instruction at pc {}: {}", ..)) and
\* Err(format!("{} UNKNOWN_OPCODE 0x{:02X}\n", start_pc, opcode))
FormatErr(kind, mnemonic, start_pc, detail) ==
    [ok |-> FALSE, kind |-> kind, mnemonic |-> mnemonic, start_pc |-> start_pc,
     detail |-> detail]

\* output.push_str(&format!("{} MNEMONIC operands\n", start_pc, ..))
FormatLine(start_pc, mnemonic, operands) ==
    [start_pc |-> start_pc, mnemonic |-> mnemonic, operands |-> operands]

FormatTarget_FromCondReg(opcode, p, offset) ==
    IF opcode \in {JUMP_FORWARD_IF_FALSE, JUMP_FORWARD_IF_TRUE}
    THEN p + offset
    ELSE (p + 3) - offset

\* let target = pc + offset as usize, pc at the offset operand (forward);
\* let target = pc as i64 - offset as i64, pc after the operand (backward);
\* p is the pc after the opcode
FormatTarget(opcode, p, offset) ==
    IF opcode \in {JUMP_FORWARD_IF_FALSE, JUMP_FORWARD_IF_TRUE}
    THEN (p + 1) + offset
    ELSE (p + 3) - offset

\* the while loop of format_bytecode from pc0 on, with the output so far
RECURSIVE FormatFrom(_, _, _)
FormatFrom(bc, pc0, output) ==
    IF ~(pc0 < Len(bc))
    THEN [ok |-> TRUE, output |-> output, pc |-> pc0, len |-> Len(bc)]
    ELSE
    LET opcode == At(bc, pc0)
        start_pc == pc0
        p == pc0 + 1
        name == Mnemonic(opcode)
    IN  IF opcode \in FormatLoadOps
        THEN IF p >= Len(bc)
             THEN FormatErr("Incomplete", name, start_pc, "missing register")
             ELSE IF (p + 1) + 7 >= Len(bc)
             THEN FormatErr("Incomplete", name, start_pc, "missing value bytes")
             ELSE FormatFrom(bc, p + 9, Append(output,
                     FormatLine(start_pc, name, <<At(bc, p), read_i64(bc, p + 1)>>)))
        ELSE IF opcode \in FormatConstOps
        THEN IF p + 2 >= Len(bc)
             THEN FormatErr("Incomplete", name, start_pc, "missing operands")
             ELSE FormatFrom(bc, p + 3, Append(output,
                     FormatLine(start_pc, name, <<At(bc, p), read_u16(bc, p + 1)>>)))
        ELSE IF opcode \in FormatThreeOps
        THEN IF p + 2 >= Len(bc)
             THEN FormatErr("Incomplete", name, start_pc, "missing register operands")
             ELSE FormatFrom(bc, p + 3, Append(output,
                     FormatLine(start_pc, name,
                                <<At(bc, p), At(bc, p + 1), At(bc, p + 2)>>)))
        ELSE IF opcode \in FormatCondOps
        THEN IF p + 2 >= Len(bc)
             THEN FormatErr("Incomplete", name, start_pc,
                            "missing condition register or offset")
             ELSE LET cond_reg == At(bc, p)
                      offset == read_u16(bc, p + 1)
                      target == FormatTarget(opcode, p, offset)
                  IN  FormatFrom(bc, p + 3, Append(output,
                         FormatLine(start_pc, name, <<cond_reg, target, offset>>)))
        ELSE IF opcode = JMP
        THEN IF p + 1 >= Len(bc)
             THEN FormatErr("Incomplete", name, start_pc, "missing target address")
             ELSE FormatFrom(bc, p + 2, Append(output,
                     FormatLine(start_pc, name, <<read_u16(bc, p)>>)))
        ELSE IF opcode \in FormatConvertOps
        THEN IF p + 1 >= Len(bc)
             THEN FormatErr("Incomplete", name, start_pc, "missing register operands")
             ELSE FormatFrom(bc, p + 2, Append(output,
                     FormatLine(start_pc, name, <<At(bc, p), At(bc, p + 1)>>)))
        ELSE FormatErr("UNKNOWN_OPCODE", name, start_pc, opcode)

\* format_bytecode
format_bytecode(bc) == FormatFrom(bc, 0, <<>>)

\* one instruction of every opcode of the instruction set (LOAD_I64 ..
\* F64_TO_I64, the constant loads, CALL_HOST), as the assembler lays it out
IsaInstrs ==
    {<<op, 1>> \o to_le_bytes(258) \o <<0, 0, 0, 0, 0, 0>> : op \in FormatLoadOps}
    \cup {<<op, 1, 2, 3>> : op \in FormatThreeOps}
    \cup {<<op, 1>> \o to_le_bytes(2) : op \in FormatCondOps \cup FormatConstOps}
    \cup {<<JMP>> \o to_le_bytes(7)}
    \cup {<<op, 1, 2>> : op \in FormatConvertOps}
    \cup {<<CALL_HOST>> \o to_le_bytes(10)}

\* bytes that are no opcode of the instruction set, followed by two bytes
UndefinedInstrs == {<<0, 1, 2>>, <<27, 1, 2>>, <<255, 0, 1>>}

FormatLeadInstrs == {<<LOAD_CONST_VALUE, 1, 0, 0>>, <<JMP, 0, 0>>}
FormatLeads ==
    {Flatten(ss) : ss \in UNION {[1..n -> FormatLeadInstrs] : n \in 0..MaxLead}}

InitFormat ==
    /\ overflow_checks = FALSE
    /\ VmNew
    /\ BuilderNew
    /\ TimerNew
    /\ RegFileNew
    /\ ConstPoolNew
    /\ CallNew
    /\ CodegenNew
    /\ CompareNew
    /\ listing = NoListing
    /\ \E lead \in FormatLeads, instr \in IsaInstrs \cup UndefinedInstrs :
          \E n \in 1..Len(instr) :
             /\ prog = lead \o SubSeq(instr, 1, n)
             /\ shape = [start |-> Len(lead), opcode |-> instr[1],
                         kept |-> n, size |-> Len(instr)]

\* format_bytecode(&bytecode)
FormatBytecode ==
    /\ listing = NoListing
    /\ listing' = format_bytecode(prog)
    /\ UNCHANGED shape
    /\ UNCHANGED <<coreVars, poolVars, callVars, cgVars, cmpVars>>

NextFormat == FormatBytecode

SpecFormat == InitFormat /\ [][NextFormat]_vars

Formatted == listing # NoListing

\* the opcodes of the instruction set and the names of their constants
IsaOpcodes == {instr[1] : instr \in IsaInstrs}
IsaName(opcode) == IF opcode = CALL_HOST THEN "CALL_HOST" ELSE Mnemonic(opcode)

\* C28: a buffer that ends inside an instruction gives an error that names
\* the instruction's mnemonic and its starting pc; a byte that is no opcode
\* at an instruction boundary gives an error that names the pc and the
\* byte; an error carries no listing.
C28_TruncationNamed ==
    Formatted =>
        /\ (shape.opcode \in IsaOpcodes /\ shape.kept < shape.size) =>
              /\ ~listing.ok
              /\ listing.kind = "Incomplete"
              /\ listing.mnemonic = IsaName(shape.opcode)
              /\ listing.start_pc = shape.start
        /\ (shape.opcode \notin IsaOpcodes) =>
              /\ ~listing.ok
              /\ listing.kind = "UNKNOWN_OPCODE"
              /\ listing.start_pc = shape.start
              /\ listing.detail = shape.opcode
        /\ ~listing.ok => "output" \notin DOMAIN listing

\* what holds of the arms format_bytecode has: truncation inside any
\* instruction other than CALL_HOST is named
ArmsTruncationNamed ==
    (Formatted /\ shape.opcode \in IsaOpcodes \ {CALL_HOST}
       /\ shape.kept < shape.size) =>
        /\ ~listing.ok
        /\ listing.kind = "Incomplete"
        /\ listing.mnemonic = Mnemonic(shape.opcode)
        /\ listing.start_pc = shape.start

-----------------------------------------------------------------------------
(* BytecodeBuilder.  An emitter is an operator from the byte vector to     *)
(* [bytes, panic]; a panicking call leaves the builder as it found it and  *)
(* the builder stays usable (the panic unwinds through &mut self).         *)

LabelIds == 0..(MaxLabels - 1)
Targets == 0..(MaxBytes + 1)

current_pos(bc) == Len(bc) % U16

Emitted(bytes) == [bytes |-> bytes, panic |-> FALSE]
Panicked(bc) == [bytes |-> bc, panic |-> TRUE]

\* jump_forward_if_false / jump_forward_if_true: zero placeholder operand
jump_forward_placeholder(bc, op, cond_reg) ==
    bc \o <<op, cond_reg>> \o to_le_bytes(0)

\* jump_backward_if_false / jump_backward_if_true
jump_backward(bc, op, cond_reg, offset) ==
    bc \o <<op, cond_reg>> \o to_le_bytes(offset)

\* jmp / jmp_to
jmp(bc, target) == bc \o <<JMP>> \o to_le_bytes(target)

\* patch_target: overwrite the two bytes at target_pos
patch_target(bc, target_pos, target_value) ==
    [bc EXCEPT ![target_pos + 1] = to_le_bytes(target_value)[1],
               ![target_pos + 2] = to_le_bytes(target_value)[2]]

ForwardTargetRejected_Strict(target, cur) == target < cur

\* if target <= current_pos { panic!(...) }
ForwardTargetRejected(target, cur) == target <= cur

\* let offset = target - current_pos - 4
ForwardOffset(target, cur) == target - cur - 4

\* jump_forward_if_false_to / jump_forward_if_true_to
jump_forward_to(bc, op, cond_reg, target) ==
    LET cur == current_pos(bc)
        offset == ForwardOffset(target, cur)
    IN  IF ForwardTargetRejected(target, cur) THEN Panicked(bc)
        ELSE IF offset < 0 /\ overflow_checks THEN Panicked(bc)
        ELSE Emitted(bc \o <<op, cond_reg>> \o to_le_bytes(offset % U16))

\* if target >= current_pos { panic!(...) }
BackwardTargetRejected(target, cur) == target >= cur

BackwardOffset_FromStart(target, cur) == cur - target

\* let offset = current_pos - target + 4
BackwardOffset(target, cur) == cur - target + 4

\* jump_backward_if_false_to / jump_backward_if_true_to
jump_backward_to(bc, op, cond_reg, target) ==
    LET cur == current_pos(bc)
        offset == BackwardOffset(target, cur)
    IN  IF BackwardTargetRejected(target, cur) THEN Panicked(bc)
        ELSE IF offset >= U16 /\ overflow_checks THEN Panicked(bc)
        ELSE Emitted(jump_backward(bc, op, cond_reg, offset % U16))

ForwardOp(ifTrue) == IF ifTrue THEN JUMP_FORWARD_IF_TRUE ELSE JUMP_FORWARD_IF_FALSE
BackwardOp(ifTrue) == IF ifTrue THEN JUMP_BACKWARD_IF_TRUE ELSE JUMP_BACKWARD_IF_FALSE
PendingType(ifTrue) == IF ifTrue THEN "ForwardIfTrue" ELSE "ForwardIfFalse"

\* the label already placed: forward helper when target > current_pos,
\* backward helper otherwise
jump_to_placed_label(bc, ifTrue, cond_reg, target) ==
    IF target > current_pos(bc)
    THEN jump_forward_to(bc, ForwardOp(ifTrue), cond_reg, target)
    ELSE jump_backward_to(bc, BackwardOp(ifTrue), cond_reg, target)

PendingOffset_PostOperand(target, patch_position) == target - patch_position - 2

\* let offset = target - pending.patch_position
PendingOffset(target, patch_position) == target - patch_position

\* build(): the loop over the taken pending list, from entry i on
RECURSIVE ResolvePending(_, _, _, _)
ResolvePending(bc, lbls, pend, i) ==
    IF i > Len(pend) THEN Emitted(bc)
    ELSE LET pending == pend[i]
         IN  IF pending.label_id \in DOMAIN lbls
             THEN LET target == lbls[pending.label_id]
                      offset == PendingOffset(target, pending.patch_position)
                  IN  IF pending.jump_type = "Absolute"
                      THEN ResolvePending(
                               patch_target(bc, pending.patch_position, target),
                               lbls, pend, i + 1)
                      ELSE IF offset < 0 /\ overflow_checks THEN Panicked(bc)
                      ELSE ResolvePending(
                               patch_target(bc, pending.patch_position, offset % U16),
                               lbls, pend, i + 1)
             ELSE Panicked(bc)

-----------------------------------------------------------------------------
(* SpecBuilder: labels, label-based jumps and build().                     *)
(* SpecTargets: the target-based jump helpers called directly.             *)

InitBuilder ==
    /\ prog = <<>>
    /\ overflow_checks \in BOOLEAN
    /\ VmNew
    /\ BuilderNew
    /\ TimerNew
    /\ RegFileNew
    /\ ExtNew

Fits(n) == Len(bytecode) + n <= MaxBytes

\* create_label
CreateLabel ==
    /\ next_label_id < MaxLabels
    /\ next_label_id' = next_label_id + 1
    /\ panicked' = FALSE
    /\ returned' = NoBuild
    /\ UNCHANGED <<bytecode, labels, pending_jumps, label_jumps, target_jumps,
                   replaced>>
    /\ UNCHANGED <<vmVars, overflow_checks, timerVars, regFileVars, extVars>>

\* place_label
PlaceLabel(label_id) ==
    /\ label_id < next_label_id
    /\ labels' = [l \in DOMAIN labels \cup {label_id} |->
                     IF l = label_id THEN current_pos(bytecode) ELSE labels[l]]
    /\ replaced' = IF label_id \in DOMAIN labels
                      /\ labels[label_id] # current_pos(bytecode)
                   THEN replaced \cup {label_id} ELSE replaced
    /\ panicked' = FALSE
    /\ returned' = NoBuild
    /\ UNCHANGED <<bytecode, next_label_id, pending_jumps, label_jumps,
                   target_jumps>>
    /\ UNCHANGED <<vmVars, overflow_checks, timerVars, regFileVars, extVars>>

\* gt_i64(0, 1, 1)
GtI64 ==
    /\ Fits(4)
    /\ bytecode' = bytecode \o <<GT_I64, 0, 1, 1>>
    /\ panicked' = FALSE
    /\ returned' = NoBuild
    /\ UNCHANGED <<labels, next_label_id, pending_jumps, label_jumps,
                   target_jumps, replaced>>
    /\ UNCHANGED <<vmVars, overflow_checks, timerVars, regFileVars, extVars>>

TargetJump(ifTrue, target, forward) ==
    [start |-> Len(bytecode), target |-> target, ifTrue |-> ifTrue,
     forward |-> forward]

\* jump_forward_if_false_to / jump_forward_if_true_to called directly
JumpForwardTo(ifTrue, target) ==
    /\ Fits(4)
    /\ LET r == jump_forward_to(bytecode, ForwardOp(ifTrue), CondReg, target)
       IN  /\ bytecode' = r.bytes
           /\ panicked' = r.panic
           /\ target_jumps' =
                  IF r.panic THEN target_jumps
                  ELSE target_jumps \cup {TargetJump(ifTrue, target, TRUE)}
    /\ returned' = NoBuild
    /\ UNCHANGED <<labels, next_label_id, pending_jumps, label_jumps, replaced>>
    /\ UNCHANGED <<vmVars, overflow_checks, timerVars, regFileVars, extVars>>

\* jump_backward_if_false_to / jump_backward_if_true_to called directly
JumpBackwardTo(ifTrue, target) ==
    /\ Fits(4)
    /\ LET r == jump_backward_to(bytecode, BackwardOp(ifTrue), CondReg, target)
       IN  /\ bytecode' = r.bytes
           /\ panicked' = r.panic
           /\ target_jumps' =
                  IF r.panic THEN target_jumps
                  ELSE target_jumps \cup {TargetJump(ifTrue, target, FALSE)}
    /\ returned' = NoBuild
    /\ UNCHANGED <<labels, next_label_id, pending_jumps, label_jumps, replaced>>
    /\ UNCHANGED <<vmVars, overflow_checks, timerVars, regFileVars, extVars>>

LabelJump(kind, label_id, wasPending) ==
    [start |-> Len(bytecode), label |-> label_id, kind |-> kind,
     pending |-> wasPending]
CondKind(ifTrue) == IF ifTrue THEN "if_true" ELSE "if_false"

\* jump_if_false_to_label / jump_if_true_to_label
JumpIfToLabel(ifTrue, label_id) ==
    /\ Fits(4)
    /\ label_id < next_label_id
    /\ IF label_id \in DOMAIN labels
       THEN LET r == jump_to_placed_label(bytecode, ifTrue, CondReg, labels[label_id])
            IN  /\ bytecode' = r.bytes
                /\ panicked' = r.panic
                /\ label_jumps' =
                       IF r.panic THEN label_jumps
                       ELSE label_jumps \cup
                            {LabelJump(CondKind(ifTrue), label_id, FALSE)}
                /\ UNCHANGED pending_jumps
       ELSE /\ bytecode' = jump_forward_placeholder(bytecode, ForwardOp(ifTrue), CondReg)
            /\ pending_jumps' = Append(pending_jumps,
                   [label_id |-> label_id,
                    patch_position |-> (Len(bytecode) + 2) % U16,
                    jump_type |-> PendingType(ifTrue)])
            /\ panicked' = FALSE
            /\ label_jumps' = label_jumps \cup
                   {LabelJump(CondKind(ifTrue), label_id, TRUE)}
    /\ returned' = NoBuild
    /\ UNCHANGED <<labels, next_label_id, target_jumps, replaced>>
    /\ UNCHANGED <<vmVars, overflow_checks, timerVars, regFileVars, extVars>>

\* jmp_to_label
JmpToLabel(label_id) ==
    /\ Fits(3)
    /\ label_id < next_label_id
    /\ IF label_id \in DOMAIN labels
       THEN /\ bytecode' = jmp(bytecode, labels[label_id])
            /\ label_jumps' = label_jumps \cup {LabelJump("jmp", label_id, FALSE)}
            /\ UNCHANGED pending_jumps
       ELSE /\ bytecode' = jmp(bytecode, 0)
            /\ pending_jumps' = Append(pending_jumps,
                   [label_id |-> label_id,
                    patch_position |-> (Len(bytecode) + 1) % U16,
                    jump_type |-> "Absolute"])
            /\ label_jumps' = label_jumps \cup {LabelJump("jmp", label_id, TRUE)}
    /\ panicked' = FALSE
    /\ returned' = NoBuild
    /\ UNCHANGED <<labels, next_label_id, target_jumps, replaced>>
    /\ UNCHANGED <<vmVars, overflow_checks, timerVars, regFileVars, extVars>>

\* build(): mem::take empties pending_jumps before the loop runs
Build ==
    /\ LET r == ResolvePending(bytecode, labels, pending_jumps, 1)
       IN  /\ bytecode' = r.bytes
           /\ returned' = IF r.panic THEN NoBuild ELSE r.bytes
           /\ panicked' = r.panic
    /\ pending_jumps' = <<>>
    /\ UNCHANGED <<labels, next_label_id, label_jumps, target_jumps, replaced>>
    /\ UNCHANGED <<vmVars, overflow_checks, timerVars, regFileVars, extVars>>

NextBuilder ==
    \/ CreateLabel
    \/ \E label_id \in LabelIds : PlaceLabel(label_id)
    \/ GtI64
    \/ \E ifTrue \in BOOLEAN, label_id \in LabelIds : JumpIfToLabel(ifTrue, label_id)
    \/ \E label_id \in LabelIds : JmpToLabel(label_id)
    \/ Build

SpecBuilder == InitBuilder /\ [][NextBuilder]_vars

NextTargets ==
    \/ GtI64
    \/ \E ifTrue \in BOOLEAN, target \in Targets : JumpForwardTo(ifTrue, target)
    \/ \E ifTrue \in BOOLEAN, target \in Targets : JumpBackwardTo(ifTrue, target)
    \/ Build

SpecTargets == InitBuilder /\ [][NextTargets]_vars

TypeBuilder ==
    /\ Len(bytecode) <= MaxBytes
    /\ \A i \in 1..Len(bytecode) : bytecode[i] \in 0..255
    /\ returned # NoBuild => (~panicked /\ returned = bytecode /\ pending_jumps = <<>>)

-----------------------------------------------------------------------------
(* Claims about the assembler's jumps (SpecBuilder, SpecTargets) *)

Built == returned # NoBuild

\* the dispatcher executing the jump at byte start with its condition
\* satisfied (register CondReg non-zero for *_IF_TRUE, zero for *_IF_FALSE)
DispatchTaken(bc, start, ifTrue) ==
    ExecuteInstruction(bc, start,
        IF ifTrue THEN RegSet(<<>>, CondReg, One64) ELSE <<>>)

LandsOn(bc, start, ifTrue, target) ==
    LET r == DispatchTaken(bc, start, ifTrue)
    IN  r.res = "Ok" /\ r.pc = target

OperandPos(j) == IF j.kind = "jmp" THEN j.start + 1 ELSE j.start + 2
PendingConditional(i) == pending_jumps[i].jump_type # "Absolute"

\* C3: when build() returns, every pending forward conditional label jump
\* has its two-byte operand patched to placed_position - patch_byte_position,
\* the label's position minus the position of the jump's operand.
C3_LabelResolution ==
    [][Built' =>
         \A i \in 1..Len(pending_jumps) :
            PendingConditional(i) =>
               read_u16(returned', pending_jumps[i].patch_position)
                  = labels[pending_jumps[i].label_id]
                       - pending_jumps[i].patch_position]_vars

C3_Witness ==
    /\ Built
    /\ \E j \in label_jumps :
          /\ j.pending /\ j.kind # "jmp" /\ j.start = 0
          /\ j.label \in DOMAIN labels
          /\ labels[j.label] = 8
          /\ read_u16(returned, 2) = 6

\* C4: when build() returns, every label-based jump in the vector, taken by
\* the dispatcher, sets pc to the position at which place_label was called
\* for its label (labels placed at one position only).
C4_LabelJumpLandsOnLabel ==
    Built =>
       \A j \in label_jumps :
          (j.label \in DOMAIN labels /\ j.label \notin replaced) =>
             LandsOn(returned, j.start, j.kind = "if_true", labels[j.label])

\* C5: a jump emitted by jump_forward_if_false_to / jump_forward_if_true_to
\* with target T > current position, taken by the dispatcher in the built
\* bytecode (which reaches T), sets pc to T.
C5_ForwardToLandsOnTarget ==
    Built =>
       \A j \in target_jumps :
          (j.forward /\ j.target <= Len(returned)) =>
             LandsOn(returned, j.start, j.ifTrue, j.target)

C7_WrongDirectionPanics ==
    [][\A ifTrue \in BOOLEAN, target \in Targets :
          (\/ JumpForwardTo(ifTrue, target) /\ target <= current_pos(bytecode)
           \/ JumpBackwardTo(ifTrue, target) /\ target >= current_pos(bytecode)) =>
             /\ panicked'
             /\ bytecode' = bytecode
             /\ pending_jumps' = pending_jumps]_vars

C7_Witness ==
    /\ panicked
    /\ ~overflow_checks
    /\ Len(bytecode) = 4
    /\ pending_jumps = <<>>

\* C8: a label-based jump to a placed label, the current position included,
\* succeeds, emits its jump and records no pending patch; a label-based jump
\* to an unplaced label records one pending patch.
C8_PlacedLabelResolvesImmediately ==
    [][\A label_id \in LabelIds :
          /\ \A ifTrue \in BOOLEAN :
                JumpIfToLabel(ifTrue, label_id) =>
                   IF label_id \in DOMAIN labels
                   THEN /\ ~panicked'
                        /\ Len(bytecode') = Len(bytecode) + 4
                        /\ pending_jumps' = pending_jumps
                   ELSE Len(pending_jumps') = Len(pending_jumps) + 1
          /\ JmpToLabel(label_id) =>
                IF label_id \in DOMAIN labels
                THEN /\ ~panicked'
                     /\ Len(bytecode') = Len(bytecode) + 3
                     /\ pending_jumps' = pending_jumps
                ELSE Len(pending_jumps') = Len(pending_jumps) + 1]_vars

\* C9: build() panics whenever a pending jump refers to an unplaced label,
\* and no vector build() returns holds a label-based jump whose zero
\* placeholder operand was never resolved.
C9_BuildNeverReturnsUnresolved ==
    /\ [][(Build /\ \E i \in 1..Len(pending_jumps) :
                       pending_jumps[i].label_id \notin DOMAIN labels) =>
             (panicked' /\ ~Built')]_vars
    /\ [](Built =>
            \A j \in label_jumps :
               j.pending => read_u16(returned, OperandPos(j)) # 0)

-----------------------------------------------------------------------------
(***************************************************************************)
(* SpecEmit: a BytecodeBuilder driven through its plain emitters, its      *)
(* label jumps and build(), and format_bytecode applied to what build()    *)
(* returned.                                                               *)
(***************************************************************************)

MaxEmit == 11       \* bytes a builder of SpecEmit holds after a plain emitter

\* load_i64 / load_f64
load_i64(bytes, opcode, value, reg) == bytes \o <<opcode, reg>> \o value

\* add_i64 .. gt_f64: opcode, r1, r2, dst
three_reg(bytes, opcode, r1, r2, dst) == bytes \o <<opcode, r1, r2, dst>>

\* i64_to_f64 / f64_to_i64: opcode, src, dst
convert(bytes, opcode, src, dst) == bytes \o <<opcode, src, dst>>

\* one call of every kind of plain emitter, on an empty builder
PlainInstrs ==
    {load_i64(<<>>, LOAD_I64, One64, 1),
     three_reg(<<>>, ADD_I64, 1, 2, 3),
     three_reg(<<>>, GT_F64, 1, 2, 3),
     convert(<<>>, I64_TO_F64, 3, 4),
     load_const_value(<<>>, 0, 1),
     load_const_slice(<<>>, 0, 2),
     call_host(<<>>, 10)}

InitEmit ==
    /\ prog = <<>>
    /\ overflow_checks = FALSE
    /\ VmNew
    /\ BuilderNew
    /\ TimerNew
    /\ RegFileNew
    /\ ExtNew

\* a plain emitter: the bytes are appended, nothing else changes
Emit(instr) ==
    /\ Len(bytecode) + Len(instr) <= MaxEmit
    /\ bytecode' = bytecode \o instr
    /\ panicked' = FALSE
    /\ returned' = NoBuild
    /\ UNCHANGED <<labels, next_label_id, pending_jumps, label_jumps,
                   target_jumps, replaced>>
    /\ UNCHANGED <<vmVars, overflow_checks, timerVars, regFileVars, extVars>>

NextEmit ==
    \/ \E instr \in PlainInstrs : Emit(instr)
    \/ CreateLabel
    \/ \E label_id \in LabelIds : PlaceLabel(label_id)
    \/ \E ifTrue \in BOOLEAN, label_id \in LabelIds : JumpIfToLabel(ifTrue, label_id)
    \/ \E label_id \in LabelIds : JmpToLabel(label_id)
    \/ Build

SpecEmit == InitEmit /\ [][NextEmit]_vars

\* C27: every byte vector build() returns disassembles without error, and
\* the final pc format_bytecode reports is the length of the vector.
C27_DisassemblerSound ==
    Built =>
        /\ format_bytecode(returned).ok
        /\ format_bytecode(returned).pc = Len(returned)

-----------------------------------------------------------------------------
(***************************************************************************)
(* CodeGenerator (src/src/codegen/mod.rs).  The generator owns a builder   *)
(* (bytecode), borrows the VM's constant pool, and keeps vars, types and   *)
(* next_reg.  next_reg and every register it computes are u8: with         *)
(* overflow checks an out-of-range result panics, without them it wraps.   *)
(***************************************************************************)

MaxStmts == 3       \* statements handed to one generator

\* the Expr and Stmt values the generator matches on
ExprInt(n) == [tag |-> "Int", n |-> n, bytes |-> <<>>, name |-> ""]
ExprStr(bytes) == [tag |-> "Str", n |-> 0, bytes |-> bytes, name |-> ""]
ExprIdent(name) == [tag |-> "Ident", n |-> 0, bytes |-> <<>>, name |-> name]
ExprBinary(left, right) == [tag |-> "Binary", left |-> left, right |-> right]
Assign(name, expr) == [stmt |-> "Assign", name |-> name, expr |-> expr]
ExprStmt(expr) == [stmt |-> "ExprStmt", expr |-> expr]
CallPrint(arg) == [stmt |-> "Print", expr |-> arg]

Overflows8(n) == n < 0 \/ n > 255
Panics8(n) == overflow_checks /\ Overflows8(n)
Wrap8(n) == n % 256

\* the generator together with its builder and the pool it borrows
Context(g, bytes, vals, vmeta, vmap, slcs, smeta, smap) ==
    [gen |-> g, bytes |-> bytes,
     values |-> vals, value_metadata |-> vmeta, value_name_to_index |-> vmap,
     slices |-> slcs, slice_metadata |-> smeta, slice_name_to_index |-> smap]

Unwind(c) == [c EXCEPT !.gen.panic = TRUE]

\* Every step below is skipped once the generator has panicked.

\* let r = self.next_reg; self.next_reg += n; r
TakeRegs(c, n) ==
    IF c.gen.panic THEN c
    ELSE IF Panics8(c.gen.next_reg + n) THEN Unwind(c)
    ELSE [c EXCEPT !.gen.next_reg = Wrap8(c.gen.next_reg + n)]

\* target.unwrap_or_else(|| { let r = self.next_reg; self.next_reg += n; r })
TargetOrNext(c, target) == IF target = None THEN c.gen.next_reg ELSE target[1]
TargetOrTake(c, target, n) == IF target = None THEN TakeRegs(c, n) ELSE c

\* const_pool.add_value("", value, I64) as u16
PoolValue(c, value) ==
    add_value(c.values, c.value_metadata, c.value_name_to_index, "", value, "I64")

\* the add_value above, then load_const_value(idx, reg)
LoadValue(c, value, reg) ==
    IF c.gen.panic THEN c
    ELSE [c EXCEPT !.values = PoolValue(c, value).values,
                   !.value_metadata = PoolValue(c, value).value_metadata,
                   !.value_name_to_index = PoolValue(c, value).value_name_to_index,
                   !.bytes = load_const_value(c.bytes, Len(c.values) % 65536, reg)]

\* const_pool.add_slice("", bytes, Utf8Str) as u16
PoolSlice(c, data) ==
    add_slice(c.slices, c.slice_metadata, c.slice_name_to_index, "", data, "Utf8Str")

\* the add_slice above, then load_const_slice(idx, reg)
LoadSlice(c, data, reg) ==
    IF c.gen.panic THEN c
    ELSE [c EXCEPT !.slices = PoolSlice(c, data).slices,
                   !.slice_metadata = PoolSlice(c, data).slice_metadata,
                   !.slice_name_to_index = PoolSlice(c, data).slice_name_to_index,
                   !.bytes = load_const_slice(c.bytes, Len(c.slices) % 65536, reg)]

Generated(c, reg, kind) == [c |-> c, reg |-> reg, kind |-> kind]

\* Expr::Int arm of gen_expr
gen_int(c, n, target) ==
    Generated(LoadValue(TargetOrTake(c, target, 1), n, TargetOrNext(c, target)),
              TargetOrNext(c, target), "Int")

\* if target.is_some() && self.next_reg <= reg + 1 { self.next_reg = reg + 2 }
ReserveLength(c, reg, target) ==
    IF c.gen.panic \/ target = None THEN c
    ELSE IF Panics8(reg + 1) THEN Unwind(c)
    ELSE IF c.gen.next_reg > Wrap8(reg + 1) THEN c
    ELSE IF Panics8(reg + 2) THEN Unwind(c)
    ELSE [c EXCEPT !.gen.next_reg = Wrap8(reg + 2)]

\* Expr::Str arm of gen_expr
gen_str(c, data, target) ==
    Generated(LoadSlice(ReserveLength(TargetOrTake(c, target, 2),
                                      TargetOrNext(c, target), target),
                        data, TargetOrNext(c, target)),
              TargetOrNext(c, target), "Str")

\* Expr::Ident arm of gen_expr: nothing is emitted, the target is not used
gen_ident(c, name) ==
    IF name \in DOMAIN c.gen.vars /\ name \in DOMAIN c.gen.types
    THEN Generated(c, c.gen.vars[name], c.gen.types[name])
    ELSE Generated(Unwind(c), 0, "Int")

\* the end of the Expr::Binary arm: add_i64(lreg, rreg, dst)
gen_add(l, r, target) ==
    IF r.c.gen.panic THEN Generated(r.c, 0, "Int")
    ELSE Generated([r.c EXCEPT !.bytes =
                       three_reg(r.c.bytes, ADD_I64, l.reg, r.reg,
                                 IF target = None THEN l.reg ELSE target[1])],
                   IF target = None THEN l.reg ELSE target[1], "Int")

\* CodeGenerator::gen_expr
RECURSIVE gen_expr(_, _, _)
gen_expr(c, expr, target) ==
    IF c.gen.panic THEN Generated(c, 0, "Int")
    ELSE IF expr.tag = "Int" THEN gen_int(c, expr.n, target)
    ELSE IF expr.tag = "Str" THEN gen_str(c, expr.bytes, target)
    ELSE IF expr.tag = "Ident" THEN gen_ident(c, expr.name)
    ELSE LET l == gen_expr(c, expr.left, target)
         IN  gen_add(l, gen_expr(l.c, expr.right, None), target)

\* let base = reg - 1; if self.next_reg <= base + 2 { self.next_reg = base + 3 }
ReserveWindow(c, reg) ==
    IF c.gen.panic THEN c
    ELSE IF Panics8(reg - 1) \/ Panics8(Wrap8(reg - 1) + 2) THEN Unwind(c)
    ELSE IF c.gen.next_reg > Wrap8(Wrap8(reg - 1) + 2) THEN c
    ELSE IF Panics8(Wrap8(reg - 1) + 3) THEN Unwind(c)
    ELSE [c EXCEPT !.gen.next_reg = Wrap8(Wrap8(reg - 1) + 3)]

\* self.builder.load_const_value(self.print_const, base)
LoadPrint(c, base) ==
    IF c.gen.panic THEN c
    ELSE [c EXCEPT !.bytes = load_const_value(c.bytes, c.gen.print_const, base)]

\* if kind == ValueKind::Int { load the constant 0 into base + 2 }
LoadZeroLength(c, kind, base) ==
    IF kind = "Int" THEN LoadValue(c, 0, Wrap8(base + 2)) ELSE c

\* self.builder.call_host(base as u16)
CallPrintHost(c, base) ==
    IF c.gen.panic THEN c ELSE [c EXCEPT !.bytes = call_host(c.bytes, base)]

\* CodeGenerator::gen_print, after gen_expr(arg, None) gave e
gen_print_call(e) ==
    CallPrintHost(
        LoadZeroLength(LoadPrint(ReserveWindow(e.c, e.reg), Wrap8(e.reg - 1)),
                       e.kind, Wrap8(e.reg - 1)),
        Wrap8(e.reg - 1))

\* CodeGenerator::gen_print
gen_print(c, arg) == gen_print_call(gen_expr(c, arg, None))

MapPut(map, key, value) ==
    [k \in DOMAIN map \cup {key} |-> IF k = key THEN value ELSE map[k]]

\* vars.entry(name).or_insert_with(|| { let r = next_reg; next_reg += 1; r })
VarsEntry(c, name) ==
    IF name \in DOMAIN c.gen.vars THEN c
    ELSE IF Panics8(c.gen.next_reg + 1) THEN Unwind(c)
    ELSE [c EXCEPT !.gen.vars = MapPut(c.gen.vars, name, c.gen.next_reg),
                   !.gen.next_reg = Wrap8(c.gen.next_reg + 1)]

\* self.types.insert(name, kind)
TypesInsert(e, name) ==
    IF e.c.gen.panic THEN e.c
    ELSE [e.c EXCEPT !.gen.types = MapPut(e.c.gen.types, name, e.kind)]

\* the Stmt::Assign arm of gen_stmt, once the name has its register
gen_assign_to(c, name, expr) ==
    IF c.gen.panic THEN c
    ELSE TypesInsert(gen_expr(c, expr, Some(c.gen.vars[name])), name)

gen_assign(c, name, expr) == gen_assign_to(VarsEntry(c, name), name, expr)

\* CodeGenerator::gen_stmt
gen_stmt(c, stmt) ==
    IF stmt.stmt = "Assign" THEN gen_assign(c, stmt.name, stmt.expr)
    ELSE IF stmt.stmt = "Print" THEN gen_print(c, stmt.expr)
    ELSE gen_expr(c, stmt.expr, None).c

\* what an expression evaluates to, given what the variables hold
RECURSIVE Meaning(_, _)
Meaning(e, expr) ==
    IF expr.tag = "Int" THEN [kind |-> "Int", n |-> expr.n, bytes |-> <<>>]
    ELSE IF expr.tag = "Str" THEN [kind |-> "Str", n |-> 0, bytes |-> expr.bytes]
    ELSE IF expr.tag = "Ident"
    THEN IF expr.name \in DOMAIN e THEN e[expr.name]
         ELSE [kind |-> "Undefined", n |-> 0, bytes |-> <<>>]
    ELSE [kind |-> "Int",
          n |-> Meaning(e, expr.left).n + Meaning(e, expr.right).n,
          bytes |-> <<>>]

\* fn setup_vm of the generator's tests: the print host function is
\* registered and its index stored as constant 0
SetupVm ==
    LET r == register([funcs |-> <<>>, metadata |-> <<>>], "print", 0, 1, 3, "print")
        a == add_value(<<>>, <<>>, [n \in {} |-> 0], "", r.index, "FuncHost")
    IN  [host_functions |-> r.host_functions, print_idx |-> a.index, pool |-> a]

\* the generator after compiling `a = 0` and then k statements `0`
AfterPrelude(k) ==
    LET s == SetupVm
        g == NewGenerator(s.print_idx)
    IN  Context([g EXCEPT !.vars = [n \in {"a"} |-> 1],
                          !.types = [n \in {"a"} |-> "Int"],
                          !.next_reg = 2 + k],
                [i \in 1..(4 * (k + 1)) |->
                    LET j == (i - 1) \div 4
                        b == (i - 1) % 4
                    IN  IF b = 0 THEN LOAD_CONST_VALUE
                        ELSE IF b = 1 THEN j + 1
                        ELSE IF b = 2 THEN (j + 1) % 256
                        ELSE (j + 1) \div 256],
                s.pool.values \o [i \in 1..(k + 1) |-> 0],
                s.pool.value_metadata \o
                    [i \in 1..(k + 1) |-> [name |-> "", typ |-> "I64", index |-> i]],
                [n \in {""} |-> k + 1],
                <<>>, <<>>, [n \in {} |-> 0])

\* the generator of a VM set up for print and nothing compiled yet
Fresh ==
    LET s == SetupVm
    IN  Context(NewGenerator(s.print_idx), <<>>,
                s.pool.values, s.pool.value_metadata, s.pool.value_name_to_index,
                <<>>, <<>>, [n \in {} |-> 0])

Holds(c) ==
    /\ gen = c.gen
    /\ bytecode = c.bytes
    /\ values = c.values
    /\ value_metadata = c.value_metadata
    /\ value_name_to_index = c.value_name_to_index
    /\ slices = c.slices
    /\ slice_metadata = c.slice_metadata
    /\ slice_name_to_index = c.slice_name_to_index

\* 253 statements `0` after `a = 0` leave next_reg at 255, the last u8
Preludes == {0, 253}

InitGenerator(c, checks) ==
    /\ prog = <<>>
    /\ overflow_checks \in checks
    /\ VmNew
    /\ TimerNew
    /\ RegFileNew
    /\ FormatNew
    /\ CompareNew
    /\ labels = [l \in {} |-> 0]
    /\ next_label_id = 0
    /\ pending_jumps = <<>>
    /\ label_jumps = {}
    /\ target_jumps = {}
    /\ replaced = {}
    /\ returned = NoBuild
    /\ panicked = FALSE
    /\ Holds(c)
    /\ last_add = NoAdd
    /\ source = <<>>
    /\ printed = <<>>
    /\ env = [n \in {} |-> 0]

InitCodegen ==
    \E k \in Preludes :
        /\ InitGenerator(AfterPrelude(k), BOOLEAN)
        /\ host_functions = SetupVm.host_functions
        /\ call_stack = <<>>
        /\ issued = 0
        /\ host_log = <<>>

\* one turn of compile's loop: self.gen_stmt(stmt)
GenStmt(stmt) ==
    /\ returned = NoBuild
    /\ ~gen.panic
    /\ Len(source) < MaxStmts
    /\ \E c \in {gen_stmt(Context(gen, bytecode, values, value_metadata,
                                   value_name_to_index, slices, slice_metadata,
                                   slice_name_to_index), stmt)} :
           /\ gen' = c.gen
           /\ bytecode' = c.bytes
           /\ values' = c.values
           /\ value_metadata' = c.value_metadata
           /\ value_name_to_index' = c.value_name_to_index
           /\ slices' = c.slices
           /\ slice_metadata' = c.slice_metadata
           /\ slice_name_to_index' = c.slice_name_to_index
    /\ source' = Append(source, stmt)
    /\ env' = IF stmt.stmt = "Assign"
              THEN MapPut(env, stmt.name, Meaning(env, stmt.expr))
              ELSE env
    /\ printed' = IF stmt.stmt = "Print"
                  THEN Append(printed, Meaning(env, stmt.expr))
                  ELSE printed
    /\ UNCHANGED <<labels, next_label_id, pending_jumps, label_jumps,
                   target_jumps, replaced, returned, panicked, last_add>>
    /\ UNCHANGED <<vmVars, overflow_checks, timerVars, regFileVars, callVars,
                   fmtVars, cmpVars>>

\* the end of compile: self.builder.build(); the test then hands the bytes
\* to eval_program
Compile ==
    /\ returned = NoBuild
    /\ ~gen.panic
    /\ LET r == ResolvePending(bytecode, labels, pending_jumps, 1)
       IN  /\ bytecode' = r.bytes
           /\ returned' = IF r.panic THEN NoBuild ELSE r.bytes
           /\ panicked' = r.panic
           /\ prog' = IF r.panic THEN prog ELSE r.bytes
    /\ pending_jumps' = <<>>
    /\ UNCHANGED <<labels, next_label_id, label_jumps, target_jumps, replaced>>
    /\ UNCHANGED <<registers, pc, last_pc, status, error>>
    /\ UNCHANGED <<overflow_checks, timerVars, regFileVars, extVars>>

\* three names assigned integers and strings, a literal statement
CodegenStmts ==
    <<Assign("x", ExprInt(1)), Assign("y", ExprInt(2)), Assign("z", ExprStr(<<104, 105>>)),
      Assign("x", ExprStr(<<104>>)), Assign("y", ExprBinary(ExprIdent("x"), ExprInt(3))),
      ExprStmt(ExprInt(0)), CallPrint(ExprIdent("a"))>>

NextCodegen ==
    \/ \E i \in 1..Len(CodegenStmts) : GenStmt(CodegenStmts[i])
    \/ Compile

SpecCodegen == InitCodegen /\ [][NextCodegen]_vars

Registered(g) == {g.vars[n] : n \in DOMAIN g.vars}

\* C29: every variable name has one register, never 0; distinct names have
\* distinct registers; a name keeps its register when it is assigned again,
\* and a new name gets a register above every register handed out before.
C29_RegisterPerName ==
    /\ [](/\ (\A n \in DOMAIN gen.vars : gen.vars[n] >= 1)
          /\ (\A n, m \in DOMAIN gen.vars :
                 gen.vars[n] = gen.vars[m] => n = m))
    /\ [][/\ (\A n \in DOMAIN gen.vars :
                 n \in DOMAIN gen'.vars /\ gen'.vars[n] = gen.vars[n])
          /\ (\A n \in DOMAIN gen'.vars \ DOMAIN gen.vars :
                 \A r \in Registered(gen) : gen'.vars[n] > r)]_vars

-----------------------------------------------------------------------------
(* Compiled programs run on the VM that setup_vm prepared. *)

InitPrint ==
    /\ InitGenerator(Fresh, {FALSE})
    /\ host_functions = SetupVm.host_functions
    /\ call_stack = <<>>
    /\ issued = 0
    /\ host_log = <<>>

\* integers and strings, printed as literals, through variables and as sums
PrintStmts ==
    <<Assign("x", ExprInt(7)), Assign("y", ExprInt(2)),
      Assign("s", ExprStr(<<104, 105>>)),
      CallPrint(ExprIdent("x")), CallPrint(ExprIdent("y")),
      CallPrint(ExprIdent("s")), CallPrint(ExprInt(5)),
      CallPrint(ExprStr(<<104>>)), CallPrint(ExprStr(<<>>)),
      CallPrint(ExprBinary(ExprIdent("x"), ExprInt(1)))>>

NextPrint ==
    \/ \E i \in 1..Len(PrintStmts) : GenStmt(PrintStmts[i])
    \/ Compile
    \/ EvalCallProgram
    \/ StepCall

SpecPrint == InitPrint /\ [][NextPrint]_vars

\* the k-th print statement of the source and the k-th host call agree
SeenAsInt(arg, call) ==
    /\ call.arg1 = arg.n
    /\ call.arg2 = 0
    /\ call.out.fmt = "Int"

SeenAsStr(arg, call) ==
    /\ call.arg1 \in {SlicePtr(i - 1) : i \in {j \in 1..Len(slices) :
                                                 slices[j] = arg.bytes}}
    /\ call.arg2 = Len(arg.bytes)
    /\ call.out.fmt = "Str"

\* C30: when CALL_HOST runs for print(arg), the host sees the argument at
\* base + 1 and at base + 2 the length slot, 0 for an integer argument and
\* the byte length for a string argument; it formats an integer argument as
\* an integer and a string argument as UTF-8 text.
C30_PrintConvention ==
    \A k \in 1..Len(host_log) :
        /\ k <= Len(printed)
        /\ (printed[k].kind = "Int" => SeenAsInt(printed[k], host_log[k]))
        /\ (printed[k].kind = "Str" => SeenAsStr(printed[k], host_log[k]))

-----------------------------------------------------------------------------
(***************************************************************************)
(* SpecCompare: the same program assembled twice, as in                    *)
(* test_comparison_old_vs_new_approach: new_builder (bytecode, labels,     *)
(* pending_jumps) uses labels, old_builder uses jump_forward_if_false /    *)
(* jump_forward_if_true and patch_target.  Each action makes the step in   *)
(* both builders.                                                          *)
(***************************************************************************)

\* old_builder.patch_target(target_pos, end_pos - target_pos) for every
\* operand position recorded for the label
RECURSIVE PatchJumps(_, _, _)
PatchJumps(bc, js, end_pos) ==
    IF js = {} THEN bc
    ELSE LET j == CHOOSE x \in js : TRUE
         IN  PatchJumps(patch_target(bc, j.target_pos,
                                     (end_pos - j.target_pos) % U16),
                        js \ {j}, end_pos)

\* gt_i64(0, 1, 1) in both builders
EmitBoth ==
    /\ Fits(4)
    /\ bytecode' = bytecode \o <<GT_I64, 0, 1, 1>>
    /\ old_builder' = [old_builder EXCEPT
                          !.bytecode = @ \o <<GT_I64, 0, 1, 1>>,
                          !.returned = NoBuild]
    /\ panicked' = FALSE
    /\ returned' = NoBuild
    /\ UNCHANGED <<labels, next_label_id, pending_jumps, label_jumps,
                   target_jumps, replaced>>
    /\ UNCHANGED <<vmVars, overflow_checks, timerVars, regFileVars>>
    /\ UNCHANGED <<poolVars, callVars, fmtVars, cgVars>>

\* new: jump_if_false_to_label / jump_if_true_to_label to a label not yet
\* placed; old: let target_pos = jump_forward_if_false / _if_true(cond_reg)
JumpBoth(ifTrue, label_id) ==
    /\ Fits(4)
    /\ label_id < next_label_id
    /\ label_id \notin DOMAIN labels
    /\ bytecode' = jump_forward_placeholder(bytecode, ForwardOp(ifTrue), CondReg)
    /\ pending_jumps' = Append(pending_jumps,
           [label_id |-> label_id,
            patch_position |-> (Len(bytecode) + 2) % U16,
            jump_type |-> PendingType(ifTrue)])
    /\ label_jumps' = label_jumps \cup {LabelJump(CondKind(ifTrue), label_id, TRUE)}
    /\ old_builder' = [old_builder EXCEPT
           !.bytecode = jump_forward_placeholder(@, ForwardOp(ifTrue), CondReg),
           !.jumps = @ \cup {[label_id |-> label_id,
                              target_pos |-> (Len(old_builder.bytecode) + 2) % U16]},
           !.returned = NoBuild]
    /\ panicked' = FALSE
    /\ returned' = NoBuild
    /\ UNCHANGED <<labels, next_label_id, target_jumps, replaced>>
    /\ UNCHANGED <<vmVars, overflow_checks, timerVars, regFileVars>>
    /\ UNCHANGED <<poolVars, callVars, fmtVars, cgVars>>

\* new: place_label(label_id), once per label; old: let end_pos =
\* current_pos() and the patch_target calls for the jumps that go there
PlaceBoth(label_id) ==
    /\ label_id < next_label_id
    /\ label_id \notin DOMAIN labels
    /\ labels' = [l \in DOMAIN labels \cup {label_id} |->
                     IF l = label_id THEN current_pos(bytecode) ELSE labels[l]]
    /\ UNCHANGED replaced
    /\ old_builder' = [old_builder EXCEPT
           !.bytecode = PatchJumps(@, {j \in old_builder.jumps :
                                          j.label_id = label_id},
                                   current_pos(old_builder.bytecode)),
           !.returned = NoBuild]
    /\ panicked' = FALSE
    /\ returned' = NoBuild
    /\ UNCHANGED <<bytecode, next_label_id, pending_jumps, label_jumps,
                   target_jumps>>
    /\ UNCHANGED <<vmVars, overflow_checks, timerVars, regFileVars>>
    /\ UNCHANGED <<poolVars, callVars, fmtVars, cgVars>>

\* build() on both builders; old_builder has no pending jump
BuildBoth ==
    /\ LET r == ResolvePending(bytecode, labels, pending_jumps, 1)
       IN  /\ bytecode' = r.bytes
           /\ returned' = IF r.panic THEN NoBuild ELSE r.bytes
           /\ panicked' = r.panic
    /\ pending_jumps' = <<>>
    /\ old_builder' = [old_builder EXCEPT !.returned = old_builder.bytecode]
    /\ UNCHANGED <<labels, next_label_id, label_jumps, target_jumps, replaced>>
    /\ UNCHANGED <<vmVars, overflow_checks, timerVars, regFileVars>>
    /\ UNCHANGED <<poolVars, callVars, fmtVars, cgVars>>

NextCompare ==
    \/ CreateLabel
    \/ EmitBoth
    \/ \E ifTrue \in BOOLEAN, label_id \in LabelIds : JumpBoth(ifTrue, label_id)
    \/ \E label_id \in LabelIds : PlaceBoth(label_id)
    \/ BuildBoth

SpecCompare == InitBuilder /\ [][NextCompare]_vars

\* every jump of old_builder has had its patch_target call
AllPatched == \A j \in old_builder.jumps : j.label_id \in DOMAIN labels

\* C31: once every forward jump has its target (the label placed, the
\* operand patched with T - p), build() returns the same bytes for the
\* label-based builder as for the manually patched one, and so the two
\* programs leave the same registers.
C31_PatchEqualsLabel ==
    (Built /\ AllPatched) =>
        /\ returned = old_builder.returned
        /\ EvalProgramResult(returned, 0, [r \in {} |-> Zero64], MaxBytes)
             = EvalProgramResult(old_builder.returned, 0, [r \in {} |-> Zero64],
                                 MaxBytes)

-----------------------------------------------------------------------------
(***************************************************************************)
(* SpecAgree: programs of conditional jumps, run by eval_program and       *)
(* listed by format_bytecode.                                              *)
(***************************************************************************)

\* up to MaxInstrs instructions: the conditional jumps of the SpecVM menu
\* and an instruction to jump over
AgreeMenu ==
    {<<op, CondReg>> \o to_le_bytes(k) : op \in CondJumpOps, k \in 0..MaxOff}
    \cup {<<GT_I64, 0, 1, 1>>}

AgreePrograms ==
    {Flatten(ss) : ss \in UNION {[1..n -> AgreeMenu] : n \in 0..MaxInstrs}}

InitAgree ==
    /\ prog \in AgreePrograms
    /\ overflow_checks \in BOOLEAN
    /\ VmNew
    /\ BuilderNew
    /\ TimerNew
    /\ RegFileNew
    /\ ExtNew

NextAgree ==
    \/ \E value \in {Zero64, HighBit64} : SetRegisterRaw(CondReg, value)
    \/ EvalProgram
    \/ Step
    \/ FormatBytecode

SpecAgree == InitAgree /\ [][NextAgree]_vars

\* the start pc of the line after line i, or the final pc after the last
NextStart(i) ==
    IF i < Len(listing.output) THEN listing.output[i + 1].start_pc ELSE listing.pc

\* the conditional jump executed last has a line of its own in the listing
Listed(i) ==
    /\ Formatted
    /\ listing.ok
    /\ i <= Len(listing.output)
    /\ listing.output[i].start_pc = last_pc

\* C32: for every conditional jump that format_bytecode lists and the
\* dispatcher executes, the target PC in the jump's line is the pc the
\* dispatcher sets when the jump is taken, and the line after it starts at
\* the pc the dispatcher sets when the jump is not taken.
C32_DisassemblerAgrees ==
    (JumpDone(CondJumpOps) /\ Continues) =>
        \A i \in 1..Len(prog) :
           Listed(i) =>
              /\ listing.output[i].mnemonic = Mnemonic(LastOp)
              /\ pc = IF LastSatisfied
                      THEN listing.output[i].operands[2]
                      ELSE NextStart(i)

\* a taken forward jump over three bytes and a line that shows its target
C32_Witness ==
    /\ JumpDone(ForwardOps)
    /\ Continues
    /\ LastSatisfied
    /\ LastOffset = 5
    /\ Listed(1)
    /\ listing.output[1].operands[2] = 7
    /\ pc = 7

-----------------------------------------------------------------------------
(* Claims about jump validation and failing instructions (SpecVM) *)

\* C33: a conditional forward jump whose computed target exceeds
\* len(bytecode), or a conditional backward jump whose offset exceeds the
\* post-operand pc, makes eval_program fail with InvalidJumpTarget, whether
\* or not the condition register would take the jump.
C33_ValidationBeforeCondition ==
    \A satisfied \in BOOLEAN :
       /\ (JumpDone(ForwardOps) /\ LastSatisfied = satisfied
             /\ last_pc + 2 + LastOffset > Len(prog)) =>
              (status = "err" /\ error.kind = "InvalidJumpTarget")
       /\ (JumpDone(BackwardOps) /\ LastSatisfied = satisfied
             /\ LastOffset > last_pc + 4) =>
              (status = "err" /\ error.kind = "InvalidJumpTarget")

-----------------------------------------------------------------------------
(***************************************************************************)
(* SpecRaw: eval_program over arbitrary byte strings: every string of up   *)
(* to MaxRaw bytes over opcodes, an undefined opcode and small operands.   *)
(***************************************************************************)

MaxRaw == 5         \* longest byte string run by SpecRaw

RawBytes == {0, LOAD_I64, SUB_I64, JUMP_FORWARD_IF_FALSE, JMP,
             JUMP_BACKWARD_IF_FALSE}

RawPrograms == UNION {[1..n -> RawBytes] : n \in 0..MaxRaw}

InitRaw ==
    /\ prog \in RawPrograms
    /\ overflow_checks \in BOOLEAN
    /\ VmNew
    /\ BuilderNew
    /\ TimerNew
    /\ RegFileNew
    /\ ExtNew

NextRaw ==
    \/ \E value \in {Zero64, One64} : SetRegisterRaw(0, value)
    \/ EvalProgram
    \/ Step

SpecRaw == InitRaw /\ [][NextRaw]_vars

\* the loop test has been evaluated: the run is at the head of an iteration
\* or has left the loop through it
AtLoopHead == status \in {"running", "ok"}

\* C34: at the head of every iteration of the dispatch loop 0 <= pc <=
\* len(bytecode), for every byte string; an iteration starts only with
\* pc < len(bytecode), and eval_program returns Ok exactly when the loop
\* head is reached with pc = len(bytecode).
C34_PcWithinBuffer ==
    /\ AtLoopHead => (0 <= pc /\ pc <= Len(prog))
    /\ status = "running" => pc < Len(prog)
    /\ status = "ok" <=> (AtLoopHead /\ pc = Len(prog))

\* a JMP to len(bytecode) out of a string that is no assembled program
C34_Witness ==
    /\ prog = <<JMP, 4, 0, 0>>
    /\ last_pc = 0
    /\ status = "ok"
    /\ pc = 4

VmErrors == {"UnexpectedEndOfProgram", "InvalidOpcode", "InvalidJumpTarget"}

\* C35: an instruction that fails with UnexpectedEndOfProgram, InvalidOpcode
\* or InvalidJumpTarget writes no register, so the register file an error
\* leaves is the one the completed instructions produced; a completed
\* instruction's write is kept by every later instruction that does not
\* write the same register.
C35_FailureWritesNothing ==
    /\ [][(Step /\ status' = "err" /\ error'.kind \in VmErrors) =>
             registers' = registers]_vars
    /\ [][(Step /\ At(prog, pc) \in CondJumpOps \cup {JMP}) =>
             registers' = registers]_vars
    /\ [][(Step /\ At(prog, pc) = SUB_I64 /\ status' \in {"running", "ok"}) =>
             \A r \in 0..255 :
                r # At(prog, pc + 3) =>
                   RegGet(registers', r) = RegGet(registers, r)]_vars

\* an undefined opcode after a subtraction whose result is still there
C35_Witness ==
    /\ prog = <<SUB_I64, 0, 4, 11, 0>>
    /\ status = "err"
    /\ error = [kind |-> "InvalidOpcode", val |-> 0]
    /\ last_pc = 4
    /\ registers = (0 :> One64) @@ (11 :> One64)

-----------------------------------------------------------------------------
(***************************************************************************)
(* SpecProgress: eval_program_with_timeout over assembled programs of      *)
(* forward jumps and arithmetic, with one JMP and one backward jump in the *)
(* menu; a run is followed for len(bytecode) + 1 instructions.             *)
(***************************************************************************)

ProgressMenu ==
    {<<op, CondReg>> \o to_le_bytes(k) : op \in ForwardOps, k \in 0..MaxOff}
    \cup {<<ADD_I64, 12, 0, 0>>, <<GT_I64, 0, 1, 1>>, <<255>>}
    \cup {<<JMP>> \o to_le_bytes(0),
          <<JUMP_BACKWARD_IF_FALSE, CondReg>> \o to_le_bytes(4)}

ProgressPrograms ==
    {Flatten(ss) : ss \in UNION {[1..n -> ProgressMenu] : n \in 0..MaxInstrs}}

InitProgress ==
    /\ prog \in ProgressPrograms
    /\ overflow_checks \in BOOLEAN
    /\ VmNew
    /\ BuilderNew
    /\ TimerNew
    /\ RegFileNew
    /\ ExtNew

\* one iteration of the loop, within the instructions a run is followed for
CountedStep ==
    /\ instruction_count <= Len(prog)
    /\ StepWithTimeout

NextProgress ==
    \/ SetRegisterRaw(CondReg, One64)
    \/ \E t \in {NoTimeout, 0} : EvalProgramWithTimeout(t)
    \/ CountedStep

SpecProgress == InitProgress /\ [][NextProgress]_vars

\* instructions executed so far: the completed ones and the failed one
Executed == instruction_count + (IF status \in {"err", "Panic"} THEN 1 ELSE 0)

LoopOpcodes == {JMP} \cup BackwardOps
LoopMnemonics == {Mnemonic(op) : op \in LoopOpcodes}

\* the instructions the bytecode is made of, as format_bytecode lists them,
\* include no JMP and no backward conditional jump
NoLoopInstruction ==
    /\ format_bytecode(prog).ok
    /\ \A i \in 1..Len(format_bytecode(prog).output) :
          format_bytecode(prog).output[i].mnemonic \notin LoopMnemonics

\* no byte of the bytecode, opcode or operand, is the opcode of a JMP or of
\* a backward conditional jump
NoLoopByte == \A i \in 1..Len(prog) : prog[i] \notin LoopOpcodes

\* the instruction about to execute is a backward conditional jump with all
\* its operands whose condition is satisfied
TakesBackward ==
    /\ At(prog, pc) \in BackwardOps
    /\ pc + 3 < Len(prog)
    /\ Taken(registers, At(prog, pc + 1), At(prog, pc) \in IfTrueOps)

\* C36 as stated: a bytecode whose instructions include no JMP and no
\* backward conditional jump is left after at most len(bytecode)
\* instructions.
C36_AsStated == NoLoopInstruction => Executed <= Len(prog)

\* C36 amended: every instruction other than JMP and a taken backward
\* conditional jump leaves pc strictly greater than its starting position;
\* and a bytecode none of whose bytes is the opcode of JMP or of a backward
\* conditional jump is left (with Ok or an error) after at most
\* len(bytecode) instructions, with or without a timeout.
C36_ForwardProgress ==
    /\ [][(StepWithTimeout /\ At(prog, pc) # JMP /\ ~TakesBackward) =>
             pc' > pc]_vars
    /\ [](NoLoopByte => Executed <= Len(prog))

\* two forward jumps, the first one taken, and the end reached
C36_Witness ==
    /\ NoLoopByte
    /\ Len(prog) = 8
    /\ At(prog, 0) \in ForwardOps
    /\ At(prog, 4) \in ForwardOps
    /\ timeout = 0
    /\ instruction_count = 2
    /\ status = "ok"

-----------------------------------------------------------------------------
(* Completion and timeout (SpecTimeout) *)

\* C37: Timeout is returned only while at least one instruction remains to
\* execute: a run whose last instruction has executed successfully, so that
\* pc = len(bytecode), returns Ok for every timeout value.
C37_CompletionIsNotTimeout ==
    (status = "err" /\ error.kind = "Timeout") => pc < Len(prog)

-----------------------------------------------------------------------------
(* Variables across print statements (SpecPrint) *)

\* the registers of variable n hold what was last assigned to it: the
\* integer, or the address and the length of the string constant
VarHolds(n) ==
    IF env[n].kind = "Int"
    THEN RegistersGet(fixed, spill, gen.vars[n]) = env[n].n
    ELSE /\ \E j \in 1..Len(slices) :
               /\ slices[j] = env[n].bytes
               /\ RegistersGet(fixed, spill, gen.vars[n]) = SlicePtr(j - 1)
         /\ RegistersGet(fixed, spill, gen.vars[n] + 1) = Len(env[n].bytes)

\* C38: the code generated for a print statement modifies no register that
\* holds a program variable: after a program of assignments and prints has
\* run, the register of every variable holds the value last assigned to it.
C38_PrintKeepsVariables ==
    (status = "ok" /\ prog = returned /\ pc = Len(prog) /\ pc > 0) =>
        \A n \in DOMAIN env : VarHolds(n)

-----------------------------------------------------------------------------
(***************************************************************************)
(* SpecAssign: programs of assignments whose right-hand sides are literals *)
(* and sums, compiled and run on the VM that setup_vm prepared.            *)
(***************************************************************************)

\* literal assignments and sums of every operand shape
AssignStmts ==
    <<Assign("x", ExprInt(7)), Assign("y", ExprInt(2)),
      Assign("x", ExprBinary(ExprIdent("x"), ExprInt(1))),
      Assign("x", ExprBinary(ExprInt(1), ExprIdent("x"))),
      Assign("x", ExprBinary(ExprIdent("y"), ExprIdent("x"))),
      Assign("y", ExprBinary(ExprIdent("x"), ExprIdent("x"))),
      Assign("y", ExprBinary(ExprInt(3), ExprInt(4)))>>

NextAssign ==
    \/ \E i \in 1..Len(AssignStmts) : GenStmt(AssignStmts[i])
    \/ Compile
    \/ EvalCallProgram
    \/ StepCall

SpecAssign == InitPrint /\ [][NextAssign]_vars

\* the compiled program has run to its end
RanCompiled ==
    /\ status = "ok"
    /\ prog = returned
    /\ pc = Len(prog)
    /\ pc > 0

LastStmt == source[Len(source)]

\* C39: after a program that ends with an assignment x = e1 + e2, the
\* register of x holds the sum of the values e1 and e2 had before that
\* assignment, for literals and variables on either side, x included.
C39_AssignStoresSum ==
    (RanCompiled /\ LastStmt.expr.tag = "Binary") =>
        RegistersGet(fixed, spill, gen.vars[LastStmt.name]) = env[LastStmt.name].n

-----------------------------------------------------------------------------
(* The payload of InvalidJumpTarget (SpecVM) *)

\* the target the failed jump executed last computed, as it was compared
\* against the bounds: an integer that may be negative or exceed a u16
ComputedTarget ==
    CASE LastOp = JMP -> LastJmpTarget
      [] LastOp \in ForwardOps -> last_pc + 2 + LastOffset
      [] LastOp \in BackwardOps -> (last_pc + 4) - LastOffset

\* C40: the payload of InvalidJumpTarget is the computed target that failed
\* validation, with no truncation or wraparound to 16 bits.
C40_PayloadIsComputedTarget ==
    (status = "err" /\ error.kind = "InvalidJumpTarget") =>
        error.val = ComputedTarget

====
